---- MODULE Spec2Model ----
(***************************************************************************)
(* A model of xadb's log decoders (src/src/commands/adb/logcat.rs).        *)
(*                                                                         *)
(* Bytes are the integers 0..255 and a buffer (BytesMut) is a sequence of  *)
(* bytes.  The code indexes from 0; At and Slice keep the code's indices.  *)
(* A decode call is an operator from the decoder's state and buffer to its *)
(* outcome: "item" (Ok(Some(item))), "none" (Ok(None), "no item yet") or   *)
(* "abort" (a panic: a failed assert!, unwrap() or slice index).           *)
(***************************************************************************)
EXTENDS Integers, Sequences, FiniteSets, TLC

VARIABLES
    binStream,  \* the bytes adb writes to the pipe read by the binary decoder
    binFed,     \* how many of them FramedRead has appended to the buffer
    binSrc,     \* LogcatBinaryDecoder's buffer (src)
    binOut,     \* the entries decode has returned so far, in order
    binLast,    \* the last decode call since the last append: its outcome and the buffer it was given
    txtStream,  \* the bytes adb writes to the pipe read by the text decoder
    txtFed,     \* how many of them FramedRead has appended to the buffer
    txtSrc,     \* LogcatStringDecoder's buffer (src)
    txtDec,     \* LogcatStringDecoder's fields: is_in_error_state, error_data
    txtOut,     \* the items decode has returned so far, in order
    txtLast,    \* the last decode call since the last append: its outcome, and the buffer and fields it was given
    devTool,    \* the command whose device listing is read: "adb" or "fastboot"
    devLines,   \* the lines the command writes to its stdout
    devRead,    \* how many of them the devices() stream has read
    devOut,     \* the items the devices() stream has yielded so far, in order
    devStatus,  \* the devices() stream: "live", "ended", or "abort" after a panic
    devLast,    \* the last call of AdbDevice::parse: the line it was given and its outcome
    trkStream,  \* the bytes of the device-tracking feed
    trkFed,     \* how many of them have been appended to the buffer
    trkSrc,     \* the tracking-frame decoder's buffer
    trkOut,     \* the frames decode has returned so far, in order
    trkLast,    \* the last decode call since the last append: its outcome and the buffer it was given
    selItems,   \* DeviceSelectApp.items.items: the DeviceItems of the list
    selSelected,\* DeviceSelectApp.items.state.selected()
    selCache,   \* DeviceSelectApp.cache.devices
    selQuery,   \* the stream of query_devices_continuously held by run: "live" or "ended"
    selStatus,  \* DeviceSelectApp::run: "running", "returned", or "abort" after a panic
    selLast,    \* the last event run handled, with the list and selection it found
    logLogs,    \* LogState.logs
    logSelected,\* LogState.selected
    logAnchor,  \* LogState.anchor
    logLast,    \* the last render of the Log widget: its height, its row range and its outcome
    viewLogs,   \* LogcatApp.logs
    viewLast    \* the last draw of LogcatApp: its height and its outcome

binVars == <<binStream, binFed, binSrc, binOut, binLast>>

txtVars == <<txtStream, txtFed, txtSrc, txtDec, txtOut, txtLast>>

devVars == <<devTool, devLines, devRead, devOut, devStatus, devLast>>

trkVars == <<trkStream, trkFed, trkSrc, trkOut, trkLast>>

selVars == <<selItems, selSelected, selCache, selQuery, selStatus, selLast>>

logVars == <<logLogs, logSelected, logAnchor, logLast>>

viewVars == <<viewLogs, viewLast>>

\* The variables of the decoders and of the user interface.
decVars == <<binVars, txtVars, devVars, trkVars>>

uiVars == <<selVars, logVars, viewVars>>

vars == <<binStream, binFed, binSrc, binOut, binLast,
          txtStream, txtFed, txtSrc, txtDec, txtOut, txtLast,
          devTool, devLines, devRead, devOut, devStatus, devLast,
          trkStream, trkFed, trkSrc, trkOut, trkLast,
          selItems, selSelected, selCache, selQuery, selStatus, selLast,
          logLogs, logSelected, logAnchor, logLast, viewLogs, viewLast>>

------------------------------------------------------------------------------
\* Bounds of the model.

\* The longest pipe content of the binary decoder, counted in wire samples.
MaxBinEntries == 3

\* The longest pipe content of the text decoder, counted in samples.
MaxTxtEntries == 2

\* The most lines in a device listing.
MaxDevLines == 3

\* The most frames in a device-tracking feed.
MaxTrkFrames == 2

\* The most devices in one listing given to the device selection.
MaxSelDevices == 2

\* The most entries in a viewer's log list, and the tallest viewport.
MaxLogs == 4
MaxHeight == 3

------------------------------------------------------------------------------
\* Rust values.

None == <<>>
Some(x) == <<x>>

\* src[i]
At(src, i) == src[i + 1]

\* src[a..b]
Slice(src, a, b) == SubSeq(src, a + 1, b)

\* starts_with
StartsWith(src, prefix) ==
    /\ Len(src) >= Len(prefix)
    /\ SubSeq(src, 1, Len(prefix)) = prefix

IsPrefix(a, b) == StartsWith(b, a)

\* An advance that leaves the buffer as it is.
AdvanceNothing(src, n) == src

\* BytesMut::advance(n): drop the first n bytes.
advance(src, n) == SubSeq(src, n + 1, Len(src))

\* u16::from_le_bytes
u16_from_le_bytes(b0, b1) == b0 + 256 * b1

\* u32::from_le_bytes.  A u32 does not fit TLC's integers, so the value is
\* kept as its two 16-bit halves: hi * 65536 + lo.
u32_from_le_bytes(b0, b1, b2, b3) == [hi |-> b2 + 256 * b3, lo |-> b0 + 256 * b1]

U32(n) == [hi |-> n \div 65536, lo |-> n % 65536]

\* i32::from_le_bytes: two's complement.
i32_from_le_bytes(b0, b1, b2, b3) ==
    b0 + 256 * b1 + 65536 * b2 + 16777216 * (IF b3 >= 128 THEN b3 - 256 ELSE b3)

\* String::from_utf8_lossy, as a sequence of code points, on the bytes the
\* model's inputs use: an ASCII byte is itself, and a byte that can never
\* occur in UTF-8 (0xF8..0xFF) becomes one U+FFFD.
from_utf8_lossy(bytes) == [i \in 1..Len(bytes) |-> IF bytes[i] < 128 THEN bytes[i] ELSE 65533]

\* char::is_ascii
is_ascii(c) == c < 128

\* str::trim_end_matches(|c| !c.is_ascii())
RECURSIVE trim_end_non_ascii(_)
trim_end_non_ascii(s) ==
    IF Len(s) > 0 /\ ~is_ascii(s[Len(s)])
    THEN trim_end_non_ascii(SubSeq(s, 1, Len(s) - 1))
    ELSE s

------------------------------------------------------------------------------
\* Constants of logcat.rs.

LOG_LEVEL_VERBOSE == 2
LOG_LEVEL_DEBUG == 3
LOG_LEVEL_INFO == 4
LOG_LEVEL_WARN == 5
LOG_LEVEL_ERROR == 6
LOG_LEVEL_FATAL == 7

LOG_ID_MAIN == 0
LOG_ID_RADIO == 1
LOG_ID_EVENTS == 2
LOG_ID_SYSTEM == 3
LOG_ID_STATS == 5
LOG_ID_SECURITY == 6

LOGGER_ENTRY_V1_SIZE == 20
LOGGER_ENTRY_V4_SIZE == 28

LOGGER_ENTRY_LEN_OFF == 0
LOGGER_ENTRY_HDR_SIZE_OFF == 2
LOGGER_ENTRY_PID_OFF == 4
LOGGER_ENTRY_TID_OFF == 8
LOGGER_ENTRY_SEC_OFF == 12
LOGGER_ENTRY_NSEC_OFF == 16
LOGGER_ENTRY_LID_OFF == 20
LOGGER_ENTRY_UID_OFF == 24

LOGGER_ENTRY_MAX_SIZE == 16384

\* A header-size ceiling with no room for later header versions.
MaxHdrSizeV4Only == LOGGER_ENTRY_V4_SIZE

\* The largest header size decode accepts:
\* LOGGER_ENTRY_V4_SIZE + 6 * size_of::<u32>().
MaxHdrSize == LOGGER_ENTRY_V4_SIZE + 6 * 4

------------------------------------------------------------------------------
\* LogcatBinaryDecoder.

\* A read that takes the four bytes most significant first.
read_u32_be(src, hdr_size, off) ==
    IF off > hdr_size - 4
    THEN None
    ELSE Some(u32_from_le_bytes(At(src, off + 3), At(src, off + 2), At(src, off + 1), At(src, off)))

\* fn read_u32(src, hdr_size, off) -> Option<u32>
read_u32(src, hdr_size, off) ==
    IF off > hdr_size - 4
    THEN None
    ELSE Some(u32_from_le_bytes(At(src, off), At(src, off + 1), At(src, off + 2), At(src, off + 3)))

\* The level of a text payload's first byte.
BinLevel(x) ==
    CASE x = LOG_LEVEL_VERBOSE -> <<"Verbose">>
      [] x = LOG_LEVEL_DEBUG -> <<"Debug">>
      [] x = LOG_LEVEL_INFO -> <<"Info">>
      [] x = LOG_LEVEL_WARN -> <<"Warning">>
      [] x = LOG_LEVEL_ERROR -> <<"Error">>
      [] x = LOG_LEVEL_FATAL -> <<"Fatal">>
      [] OTHER -> <<"Other", x>>

\* A classification that knows the events buffer only.
is_binary_events_only(lid) ==
    /\ lid # None
    /\ lid[1].hi = 0
    /\ lid[1].lo = LOG_ID_EVENTS

\* match lid { LOG_ID_EVENTS | LOG_ID_STATS | LOG_ID_SECURITY => true, _ => false }
is_binary(lid) ==
    /\ lid # None
    /\ lid[1].hi = 0
    /\ lid[1].lo \in {LOG_ID_EVENTS, LOG_ID_STATS, LOG_ID_SECURITY}

\* buf[start..].iter().position(|x| x == 0), as an index of buf.
RECURSIVE FindNul(_, _)
FindNul(buf, start) ==
    IF start >= Len(buf) THEN None
    ELSE IF At(buf, start) = 0 THEN Some(start)
    ELSE FindNul(buf, start + 1)

\* A message with no NUL that loses its last two bytes.
MessageEndDropsTwo(buf) == Len(buf) - 2

\* A message with no NUL that runs to the end of the payload.
MessageEndAtBufferEnd(buf) == Len(buf)

\* .unwrap_or(buf.len() - 1): where a message with no NUL ends.
MessageEndDefault(buf) == Len(buf) - 1

\* NaiveDateTime::from_timestamp_opt(sec as i64, nsec): None when nsec is
\* 2,000,000,000 (0x7735 * 65536 + 0x9400) or more.
from_timestamp_opt(sec, nsec) ==
    IF nsec.hi > 30517 \/ (nsec.hi = 30517 /\ nsec.lo >= 37888)
    THEN None
    ELSE Some([sec |-> sec, nsec |-> nsec])

\* An advance that forgets the header.
BinConsumedPayloadOnly(hdr_size, len) == len

\* How many bytes a decoded entry takes off the buffer: src.advance(hdr_size + len).
BinConsumed(hdr_size, len) == hdr_size + len

\* Outcomes of a decode call.  src is the buffer the call leaves behind.
Outcome(kind, src, item, why) == [kind |-> kind, src |-> src, item |-> item, why |-> why]

\* A short read that throws the buffered bytes away.
BinShortClears(src) == Outcome("none", <<>>, None, "short")

\* if src.len() < LOGGER_ENTRY_PID_OFF { src.reserve(1024); return Ok(None); }
\* reserve changes the buffer's capacity, not its bytes.
BinShort(src) == Outcome("none", src, None, "short")

\* A partial entry whose bytes are dropped before the rest has arrived.
BinPartialClears(src) == Outcome("none", <<>>, None, "partial")

\* if src.len() < len + hdr_size { src.reserve(..); return Ok(None); }
BinPartial(src) == Outcome("none", src, None, "partial")

\* Header checks that accept any length from 0 up.
HeaderAssertsNoMinLen(len, hdr_size) ==
    /\ len <= LOGGER_ENTRY_MAX_SIZE
    /\ hdr_size >= LOGGER_ENTRY_V1_SIZE
    /\ hdr_size % 4 = 0
    /\ hdr_size <= MaxHdrSize

\* The assert!s on len and hdr_size: FALSE when one of them panics.
HeaderAsserts(len, hdr_size) ==
    /\ len >= 3
    /\ len <= LOGGER_ENTRY_MAX_SIZE
    /\ hdr_size >= LOGGER_ENTRY_V1_SIZE
    /\ hdr_size % 4 = 0
    /\ hdr_size <= MaxHdrSize

\* A payload that runs to the end of the buffer.
PayloadToBufferEnd(src, hdr_size, len) == Slice(src, hdr_size, Len(src))

\* let buf = &src[hdr_size..][..len];
PayloadSlice(src, hdr_size, len) == Slice(Slice(src, hdr_size, Len(src)), 0, len)

\* The payload of an entry: LogBuffer::BinaryLog or LogBuffer::TextLog, or
\* the panic that building it raises.
BinPayload(buf, binary) ==
    IF binary
    THEN IF Len(buf) < 4
         THEN [ok |-> FALSE, why |-> "index", buffer |-> None]
         ELSE [ok |-> TRUE, why |-> "",
               buffer |-> [type |-> "BinaryLog",
                           tag |-> i32_from_le_bytes(At(buf, 0), At(buf, 1), At(buf, 2), At(buf, 3))]]
    ELSE LET level == BinLevel(At(buf, 0))
             tag_start == 1
             tag_end == FindNul(buf, tag_start)
         IN  IF tag_end = None
             THEN [ok |-> FALSE, why |-> "tag_end", buffer |-> None]
             ELSE LET tag == from_utf8_lossy(Slice(buf, tag_start, tag_end[1]))
                      message_start == tag_end[1] + 1
                      found == FindNul(buf, message_start)
                      message_end == IF found = None THEN MessageEndDefault(buf) ELSE found[1]
                  IN  IF message_start > message_end
                      THEN [ok |-> FALSE, why |-> "slice", buffer |-> None]
                      ELSE [ok |-> TRUE, why |-> "",
                            buffer |-> [type |-> "TextLog", level |-> level, tag |-> tag,
                                        message |-> trim_end_non_ascii(
                                            from_utf8_lossy(Slice(buf, message_start, message_end)))]]

\* <LogcatBinaryDecoder as Decoder>::decode
BinDecode(src) ==
    IF Len(src) = 0 THEN Outcome("none", src, None, "empty")
    ELSE IF Len(src) < LOGGER_ENTRY_PID_OFF THEN BinShort(src)
    ELSE
    LET len == u16_from_le_bytes(At(src, LOGGER_ENTRY_LEN_OFF), At(src, LOGGER_ENTRY_LEN_OFF + 1))
        hdr_size == u16_from_le_bytes(At(src, LOGGER_ENTRY_HDR_SIZE_OFF),
                                      At(src, LOGGER_ENTRY_HDR_SIZE_OFF + 1))
    IN  IF ~HeaderAsserts(len, hdr_size) THEN Outcome("abort", src, None, "assert")
        ELSE IF Len(src) < len + hdr_size THEN BinPartial(src)
        ELSE
        LET pid == i32_from_le_bytes(At(src, LOGGER_ENTRY_PID_OFF), At(src, LOGGER_ENTRY_PID_OFF + 1),
                                     At(src, LOGGER_ENTRY_PID_OFF + 2), At(src, LOGGER_ENTRY_PID_OFF + 3))
            tid == read_u32(src, hdr_size, LOGGER_ENTRY_TID_OFF)
            sec == read_u32(src, hdr_size, LOGGER_ENTRY_SEC_OFF)
            nsec == read_u32(src, hdr_size, LOGGER_ENTRY_NSEC_OFF)
            lid == read_u32(src, hdr_size, LOGGER_ENTRY_LID_OFF)
            uid == read_u32(src, hdr_size, LOGGER_ENTRY_UID_OFF)
            buf == PayloadSlice(src, hdr_size, len)
            payload == BinPayload(buf, is_binary(lid))
        IN  IF ~payload.ok THEN Outcome("abort", src, None, payload.why)
            ELSE LET rest == advance(src, BinConsumed(hdr_size, len))
                     timestamp == from_timestamp_opt(sec[1], nsec[1])
                 IN  IF timestamp = None THEN Outcome("abort", rest, None, "timestamp")
                     ELSE Outcome("item", rest,
                                  Some([timestamp |-> timestamp[1], uid |-> uid, pid |-> pid,
                                        tid |-> tid[1], lid |-> lid, buffer |-> payload.buffer]),
                                  "")

------------------------------------------------------------------------------
\* The bytes on the pipe: `adb logcat -B` writes logger entries.

le16(n) == <<n % 256, n \div 256>>
le32(n) == <<n % 256, (n \div 256) % 256, (n \div 65536) % 256, (n \div 16777216) % 256>>

Zeros(n) == [i \in 1..n |-> 0]

\* One wire entry: the first hdr_size bytes of the header layout (len,
\* hdr_size, pid, tid, sec, nsec, lid, uid, padding), then the payload.
\* len is the length field's value, which need not be the payload's length.
WireEntry(len, hdr_size, pid, nsec, lid, uid, payload) ==
    SubSeq(le16(len) \o le16(hdr_size) \o le32(pid) \o le32(77) \o le32(1667523026)
               \o le32(nsec) \o le32(lid) \o le32(uid) \o Zeros(28),
           1, hdr_size) \o payload

\* Entries that decode to an item.
BinC1Entry == WireEntry(6, 28, 1234, 5, LOG_ID_MAIN, 1000, <<3, 65, 66, 0, 104, 105>>)
BinEventsEntry == WireEntry(5, 24, 2, 0, LOG_ID_EVENTS, 0, <<1, 2, 3, 4, 9>>)

BinGoodEntries ==
    { BinC1Entry,
      BinEventsEntry,
      WireEntry(7, 28, 1234, 999999999, LOG_ID_SYSTEM, 1000, <<3, 65, 66, 0, 104, 105, 0>>),
      WireEntry(5, 20, -1, 0, 0, 0, <<6, 84, 0, 109, 0>>),
      WireEntry(5, 20, 7, 0, 0, 0, <<2, 0, 0, 0, 0>>),
      WireEntry(4, 32, 3, 0, LOG_ID_STATS, 10123, <<255, 255, 255, 255>>),
      WireEntry(4, 28, 4, 0, LOG_ID_SECURITY, 0, <<0, 1, 0, 0>>),
      WireEntry(4, 52, 5, 0, LOG_ID_RADIO, 0, <<7, 82, 0, 0>>),
      WireEntry(6, 24, 6, 0, LOG_ID_MAIN, 0, <<4, 65, 0, 109, 255, 0>>),
      WireEntry(3, 20, 8, 0, 0, 0, <<5, 0, 0>>) }

\* Entries whose header or payload makes decode panic.
BinBadEntries ==
    { WireEntry(2, 28, 1, 0, LOG_ID_MAIN, 0, <<3, 0>>),
      WireEntry(16385, 28, 1, 0, LOG_ID_MAIN, 0, <<3, 65, 0>>),
      WireEntry(4, 16, 1, 0, 0, 0, <<3, 65, 0, 0>>),
      WireEntry(4, 22, 1, 0, 0, 0, <<3, 65, 0, 0>>),
      WireEntry(4, 56, 1, 0, 0, 0, <<3, 65, 0, 0>>),
      WireEntry(3, 28, 1, 0, LOG_ID_MAIN, 0, <<3, 65, 66>>),
      WireEntry(3, 28, 1, 0, LOG_ID_MAIN, 0, <<3, 65, 0>>),
      WireEntry(3, 24, 1, 0, LOG_ID_EVENTS, 0, <<1, 2, 3>>),
      WireEntry(4, 28, 1, 2000000000, LOG_ID_MAIN, 0, <<3, 0, 0, 0>>) }

\* An entry of the largest accepted length, cut off after three payload bytes.
BinCutEntry == WireEntry(LOGGER_ENTRY_MAX_SIZE, 20, 1, 0, 0, 0, <<3, 65, 0>>)

BinSamples == BinGoodEntries \cup BinBadEntries \cup {BinCutEntry}

\* What may follow the first sample on the pipe: further entries, or the
\* first byte of an entry that has not been written out yet.
BinFollow == {BinC1Entry, BinEventsEntry, <<0>>}

RECURSIVE BinTails(_)
BinTails(n) ==
    IF n = 0 THEN {<<>>}
    ELSE {<<>>} \cup {f \o t : f \in BinFollow, t \in BinTails(n - 1)}

BinStreams == {s \o t : s \in BinSamples, t \in BinTails(MaxBinEntries - 1)}

------------------------------------------------------------------------------
\* The binary decoder's task: FramedRead appends the bytes it reads from the
\* pipe to the buffer and calls decode.

Idle == [kind |-> "idle", before |-> <<>>, why |-> ""]

BinInit ==
    /\ binStream \in BinStreams
    /\ binFed = 0
    /\ binSrc = <<>>
    /\ binOut = <<>>
    /\ binLast = Idle

\* Feeding a buffer whole to the binary decoder: decode is called until it
\* returns no item.
RECURSIVE BinRun(_, _)
BinRun(src, out) ==
    LET r == BinDecode(src)
    IN  IF r.kind = "item"
        THEN BinRun(r.src, Append(out, r.item[1]))
        ELSE [out |-> out, src |-> r.src, kind |-> r.kind]

\* A decoder that is given no bytes.
BinParked ==
    /\ binStream = <<>>
    /\ binFed = 0
    /\ binSrc = <<>>
    /\ binOut = <<>>
    /\ binLast = Idle

\* One more byte arrives from the pipe.
BinAppend ==
    /\ binLast.kind # "abort"
    /\ binFed < Len(binStream)
    /\ binFed' = binFed + 1
    /\ binSrc' = Append(binSrc, binStream[binFed + 1])
    /\ binLast' = Idle
    /\ UNCHANGED <<binStream, binOut>>
    /\ UNCHANGED txtVars
    /\ UNCHANGED devVars
    /\ UNCHANGED trkVars
    /\ UNCHANGED uiVars

\* A decode that works on a buffer shared with the text decoder: the call
\* empties that buffer too.
BinDecodeCallSharedBuffer ==
    /\ binLast.kind # "abort"
    /\ binFed > 0
    /\ LET r == BinDecode(binSrc)
       IN  /\ binSrc' = r.src
           /\ binOut' = IF r.kind = "item" THEN Append(binOut, r.item[1]) ELSE binOut
           /\ binLast' = [kind |-> r.kind, before |-> binSrc, why |-> r.why]
    /\ txtSrc' = <<>>
    /\ UNCHANGED <<binStream, binFed>>
    /\ UNCHANGED <<txtStream, txtFed, txtDec, txtOut, txtLast>>
    /\ UNCHANGED devVars
    /\ UNCHANGED trkVars
    /\ UNCHANGED uiVars

\* A task that hands the newest entry on ahead of the ones before it.
BinDecodeCallPrepends ==
    /\ binLast.kind # "abort"
    /\ binFed > 0
    /\ LET r == BinDecode(binSrc)
       IN  /\ binSrc' = r.src
           /\ binOut' = IF r.kind = "item" THEN <<r.item[1]>> \o binOut ELSE binOut
           /\ binLast' = [kind |-> r.kind, before |-> binSrc, why |-> r.why]
    /\ UNCHANGED <<binStream, binFed>>
    /\ UNCHANGED txtVars
    /\ UNCHANGED devVars
    /\ UNCHANGED trkVars
    /\ UNCHANGED uiVars

\* One call of decode on the buffer.  FramedRead reads before it first calls
\* decode.
BinDecodeCall ==
    /\ binLast.kind # "abort"
    /\ binFed > 0
    /\ LET r == BinDecode(binSrc)
       IN  /\ binSrc' = r.src
           /\ binOut' = IF r.kind = "item" THEN Append(binOut, r.item[1]) ELSE binOut
           /\ binLast' = [kind |-> r.kind, before |-> binSrc, why |-> r.why]
    /\ UNCHANGED <<binStream, binFed>>
    /\ UNCHANGED txtVars
    /\ UNCHANGED devVars
    /\ UNCHANGED trkVars
    /\ UNCHANGED uiVars

BinNext == BinAppend \/ BinDecodeCall

------------------------------------------------------------------------------
\* LogcatStringDecoder.

\* Bytes the decoder compares with.
NL == 10
SP == 32
PLUS == 43
DASH == 45
DOT == 46
SLASH == 47
COLON == 58
LBRACKET == 91
UNDERSCORE == 95

\* b"--------- beginning of "
EXPECTED_BEGINNING_OF_BUFFER ==
    <<45, 45, 45, 45, 45, 45, 45, 45, 45, 32, 98, 101, 103, 105, 110, 110, 105, 110, 103, 32, 111, 102, 32>>

\* b"[ "
EXPECTED_BEGINNING_OF_LOG_HEADER == <<91, 32>>

\* b" ]\n"
HEADER_END == <<32, 93, 10>>

\* b"2022-11-04 00:50:26.234185959 +0000".len()
DATE_FORMAT_LEN == 35

\* b"[ 0000-00-00 00:00:00.000000000 +0000 00000:00000:00000 V/a ]\n\n\n".len()
MINIMAL_LOG_LEN == 64

\* u8::is_ascii_digit
is_ascii_digit(c) == c >= 48 /\ c <= 57

\* u8::is_ascii_alphanumeric
is_ascii_alphanumeric(c) ==
    \/ is_ascii_digit(c)
    \/ c >= 65 /\ c <= 90
    \/ c >= 97 /\ c <= 122

\* c.is_ascii_alphanumeric() || c == b'_'
IsWordByte(c) == is_ascii_alphanumeric(c) \/ c = UNDERSCORE

\* The bytes each of decode_log's while loops steps over.
SpaceBytes == {SP}
DigitBytes == {c \in 0..255 : is_ascii_digit(c)}

\* Name bytes that let a space through.
WordBytesWithSpace == {c \in 0..255 : IsWordByte(c) \/ c = SP}

\* The bytes of a ring name and of a uid or pid token.
WordBytes == {c \in 0..255 : IsWordByte(c)}

\* while P(src[i]) { i += 1 }: the first index from i on whose byte fails P.
\* The loop tests src[i] without looking at src.len(), so when every byte
\* from i on passes P it reaches src.len(), where the read panics.
RECURSIVE SkipWhile(_, _, _)
SkipWhile(src, i, P) ==
    IF i < Len(src) /\ At(src, i) \in P THEN SkipWhile(src, i + 1, P) ELSE i

\* str::parse::<u32>() on a string of ASCII digits, most significant first:
\* Err (None) when the value passes u32::MAX.  acc is the value so far.
RECURSIVE parse_u32(_, _)
parse_u32(digits, acc) ==
    IF digits = <<>> THEN Some(acc)
    ELSE LET lo == acc.lo * 10 + (digits[1] - 48)
             hi == acc.hi * 10 + lo \div 65536
         IN  IF hi >= 65536 THEN None
             ELSE parse_u32(Tail(digits), [hi |-> hi, lo |-> lo % 65536])

\* The value of a run of ASCII digits (at most nine of them).
RECURSIVE DecimalValue(_, _)
DecimalValue(digits, acc) ==
    IF digits = <<>> THEN acc ELSE DecimalValue(Tail(digits), acc * 10 + (digits[1] - 48))

\* A validation that lets every token pass as a pid.
AnyToken(bytes) == TRUE

\* for c in &src[pid.clone()] { if !c.is_ascii_digit() { return self.enter_error_state(src); } }
AllDigits(bytes) == \A k \in 1..Len(bytes) : is_ascii_digit(bytes[k])

DaysInMonth(year, month) ==
    IF month = 2
    THEN IF year % 4 = 0 /\ (year % 100 # 0 \/ year % 400 = 0) THEN 29 ELSE 28
    ELSE IF month \in {4, 6, 9, 11} THEN 30 ELSE 31

\* std::str::from_utf8 followed by
\* DateTime::parse_from_str(timestamp, "%Y-%m-%d %H:%M:%S.%9f %z") on the 35
\* bytes after "[ ": None when either fails.  Modelled on the fixed layout
\* "YYYY-MM-DD hh:mm:ss.nnnnnnnnn +zzzz" that logcat writes; the model's
\* inputs are timestamps of that layout and bytes that are no timestamp.
parse_timestamp(t) ==
    LET num(a, b) == DecimalValue(Slice(t, a, b), 0)
        digitsAt == {0, 1, 2, 3, 5, 6, 8, 9, 11, 12, 14, 15, 17, 18,
                     20, 21, 22, 23, 24, 25, 26, 27, 28, 31, 32, 33, 34}
    IN  IF /\ Len(t) = DATE_FORMAT_LEN
           /\ \A k \in digitsAt : is_ascii_digit(At(t, k))
           /\ At(t, 4) = DASH /\ At(t, 7) = DASH /\ At(t, 10) = SP
           /\ At(t, 13) = COLON /\ At(t, 16) = COLON /\ At(t, 19) = DOT
           /\ At(t, 29) = SP /\ At(t, 30) \in {PLUS, DASH}
           /\ num(5, 7) \in 1..12
           /\ num(8, 10) \in 1..DaysInMonth(num(0, 4), num(5, 7))
           /\ num(11, 13) < 24 /\ num(14, 16) < 60 /\ num(17, 19) <= 60
           /\ num(33, 35) < 60
        THEN Some([year |-> num(0, 4), month |-> num(5, 7), day |-> num(8, 10),
                   hour |-> num(11, 13), minute |-> num(14, 16), second |-> num(17, 19),
                   nano |-> num(20, 29),
                   offset |-> (IF At(t, 30) = DASH THEN -1 ELSE 1)
                                  * (num(31, 33) * 60 + num(33, 35))])
        ELSE None

\* The level of a long-form header's level character.
TxtLevel(x) ==
    CASE x = 86 -> <<"Verbose">>
      [] x = 68 -> <<"Debug">>
      [] x = 73 -> <<"Info">>
      [] x = 87 -> <<"Warning">>
      [] x = 69 -> <<"Error">>
      [] x = 70 -> <<"Fatal">>
      [] OTHER -> <<"Other", x>>

\* char::is_whitespace on the code points the inputs use.
is_whitespace(c) == c \in {9, 10, 11, 12, 13, 32}

\* str::trim
RECURSIVE trim(_)
trim(s) ==
    IF Len(s) > 0 /\ is_whitespace(s[1]) THEN trim(Tail(s))
    ELSE IF Len(s) > 0 /\ is_whitespace(s[Len(s)]) THEN trim(SubSeq(s, 1, Len(s) - 1))
    ELSE s

\* The outcome of a LogcatStringDecoder call: what it returns, the buffer it
\* leaves and the decoder's fields after it.
TxtOutcome(kind, src, err, data, item, why) ==
    [kind |-> kind, src |-> src, is_in_error_state |-> err, error_data |-> data,
     item |-> item, why |-> why]

\* A "no item yet" that switches the decoder to error recovery.
TxtNoItemEntersRecovery(d, src, why) == TxtOutcome("none", src, TRUE, d.error_data, None, why)

\* A "no item yet" that throws the buffered bytes away.
TxtNoItemClears(d, src, why) ==
    TxtOutcome("none", <<>>, d.is_in_error_state, d.error_data, None, why)

\* src.reserve(..); return None: the buffer's bytes and the decoder's fields stay.
TxtNoItem(d, src, why) == TxtOutcome("none", src, d.is_in_error_state, d.error_data, None, why)

\* A panic inside a LogcatStringDecoder call.
TxtPanic(d, src, why) == TxtOutcome("abort", src, d.is_in_error_state, d.error_data, None, why)

\* A scan that takes any blank line for a resync point.
RECURSIVE ResyncFromAnyBlankLine(_, _)
ResyncFromAnyBlankLine(src, i) ==
    IF i + 3 > Len(src) THEN None
    ELSE IF At(src, i) = NL /\ At(src, i + 1) = NL
    THEN Some(i)
    ELSE ResyncFromAnyBlankLine(src, i + 1)

\* The first index from i on of src.windows(3).enumerate() whose window is
\* "\n\n-" or "\n\n[".
RECURSIVE ResyncFrom(_, _)
ResyncFrom(src, i) ==
    IF i + 3 > Len(src) THEN None
    ELSE IF At(src, i) = NL /\ At(src, i + 1) = NL /\ At(src, i + 2) \in {DASH, LBRACKET}
    THEN Some(i)
    ELSE ResyncFrom(src, i + 1)

ResyncPoint(src) == ResyncFrom(src, 0)

\* A scan that drops the bytes it has looked at.
ScanNoResyncDrops(d, src) ==
    TxtOutcome("none", <<>>, d.is_in_error_state, d.error_data, None, "scan")

\* A scan that keeps only the newest bytes in the accumulator.
ScanNoResyncOverwrites(d, src) ==
    TxtOutcome("none", <<>>, d.is_in_error_state, src, None, "scan")

\* What scan_out_error_state does when it finds no resync point:
\* self.error_data.extend_from_slice(&src[..]); src.advance(src.len()).
ScanNoResync(d, src) ==
    TxtOutcome("none", <<>>, d.is_in_error_state, d.error_data \o src, None, "scan")

\* Unknown bytes that take the blank-line separator with them.
UnknownDataWithSeparator(d, src, i) == d.error_data \o Slice(src, 0, i + 2)

\* The bytes of the LogUnknown item when the resync point is at i:
\* swap(error_data, self.error_data); error_data.extend_from_slice(&src[..i]).
UnknownData(d, src, i) == d.error_data \o Slice(src, 0, i)

\* fn scan_out_error_state(&mut self, src)
scan_out_error_state(d, src) ==
    LET at == ResyncPoint(src)
    IN  IF at # None
        THEN TxtOutcome("item", advance(src, at[1] + 2), FALSE, <<>>,
                        Some([type |-> "LogUnknown", data |-> UnknownData(d, src, at[1])]),
                        "")
        ELSE ScanNoResync(d, src)

\* fn enter_error_state(&mut self, src)
enter_error_state(d, src) ==
    scan_out_error_state([d EXCEPT !.is_in_error_state = TRUE], src)

\* fn decode_beginning_of_ring_buffer(&mut self, src)
decode_beginning_of_ring_buffer(d, src) ==
    IF Len(src) < Len(EXPECTED_BEGINNING_OF_BUFFER) THEN TxtNoItem(d, src, "marker")
    ELSE IF ~StartsWith(src, EXPECTED_BEGINNING_OF_BUFFER) THEN enter_error_state(d, src)
    ELSE
    LET start_of_ring_name == Len(EXPECTED_BEGINNING_OF_BUFFER)
        i == SkipWhile(src, start_of_ring_name, WordBytes)
    IN  IF i = Len(src) THEN TxtNoItem(d, src, "ring_name")
        ELSE IF At(src, i) = NL
        THEN TxtOutcome("item", advance(src, i + 1), d.is_in_error_state, d.error_data,
                        Some([type |-> "LogBeginning",
                              name |-> from_utf8_lossy(Slice(src, start_of_ring_name, i))]),
                        "")
        ELSE enter_error_state(d, src)

\* The results of the stages of decode_log: "ok" with the values parsed and
\* the index i reached, "error" where the code returns
\* self.enter_error_state(src), "panic" where an index or unwrap panics.
StageError == [res |-> "error"]
StagePanic(why) == [res |-> "panic", why |-> why]

\* decode_log from "must be at least one space" to the (uid, pid, tid) tuple:
\* i is the index after the timestamp.
LogHeaderIds(src, i) ==
    IF At(src, i) # SP THEN StageError
    ELSE
    LET maybe_uid_start == SkipWhile(src, i, SpaceBytes)
    IN  IF maybe_uid_start = Len(src) THEN StagePanic("index")
        ELSE IF ~IsWordByte(At(src, maybe_uid_start)) THEN StageError
        ELSE
        LET maybe_uid_end == SkipWhile(src, maybe_uid_start, WordBytes)
        IN  IF maybe_uid_end = Len(src) THEN StagePanic("index")
            ELSE IF At(src, maybe_uid_end) # COLON THEN StageError
            ELSE
            LET maybe_pid_start == SkipWhile(src, maybe_uid_end + 1, SpaceBytes)
            IN  IF maybe_pid_start = Len(src) THEN StagePanic("index")
                ELSE IF ~is_ascii_digit(At(src, maybe_pid_start)) THEN StageError
                ELSE
                LET maybe_pid_end == SkipWhile(src, maybe_pid_start, DigitBytes)
                IN  IF maybe_pid_end = Len(src) THEN StagePanic("index")
                    ELSE IF At(src, maybe_pid_end) = COLON
                    THEN LET tid_start == SkipWhile(src, maybe_pid_end + 1, SpaceBytes)
                         IN  IF tid_start = Len(src) THEN StagePanic("index")
                             ELSE IF ~is_ascii_digit(At(src, tid_start)) THEN StageError
                             ELSE
                             LET tid_end == SkipWhile(src, tid_start, DigitBytes)
                                 pid == parse_u32(Slice(src, maybe_pid_start, maybe_pid_end), U32(0))
                                 tid == parse_u32(Slice(src, tid_start, tid_end), U32(0))
                             IN  IF tid_end = Len(src) THEN StagePanic("index")
                                 ELSE IF pid = None \/ tid = None THEN StagePanic("parse")
                                 ELSE [res |-> "ok", i |-> tid_end,
                                       uid |-> Some(from_utf8_lossy(
                                                   Slice(src, maybe_uid_start, maybe_uid_end))),
                                       pid |-> pid[1], tid |-> tid[1]]
                    ELSE IF ~AllDigits(Slice(src, maybe_uid_start, maybe_uid_end)) THEN StageError
                    ELSE
                    LET pid == parse_u32(Slice(src, maybe_uid_start, maybe_uid_end), U32(0))
                        tid == parse_u32(Slice(src, maybe_pid_start, maybe_pid_end), U32(0))
                    IN  IF pid = None \/ tid = None THEN StagePanic("parse")
                        ELSE [res |-> "ok", i |-> maybe_pid_end, uid |-> None,
                              pid |-> pid[1], tid |-> tid[1]]

\* decode_log from "expect a space" to "expect a /": i is the index after
\* the tid, which is inside the buffer.
LogHeaderLevel(src, i) ==
    IF At(src, i) # SP THEN StageError
    ELSE IF i + 1 >= Len(src) THEN StagePanic("index")
    ELSE IF i + 2 >= Len(src) THEN StagePanic("index")
    ELSE IF At(src, i + 2) # SLASH THEN StageError
    ELSE [res |-> "ok", i |-> i + 3, level |-> TxtLevel(At(src, i + 1))]

\* while i < src.len() - HEADER_END.len() && &src[i..][..HEADER_END.len()] != HEADER_END { i += 1 }
RECURSIVE LogTagEnd(_, _)
LogTagEnd(src, i) ==
    IF i < Len(src) - Len(HEADER_END) /\ Slice(src, i, i + Len(HEADER_END)) # HEADER_END
    THEN LogTagEnd(src, i + 1)
    ELSE i

\* Whether &src[at..] starts with packet_begin.
BeginsAt(src, at, packet_begin) ==
    /\ at + Len(packet_begin) <= Len(src)
    /\ Slice(src, at, at + Len(packet_begin)) = packet_begin

\* A loop that ends the message at its first blank line.
RECURSIVE LogMessageEndAtFirstBlank(_, _)
LogMessageEndAtFirstBlank(src, i) ==
    IF i > Len(src) - (2 + Len(EXPECTED_BEGINNING_OF_BUFFER)) THEN None
    ELSE IF At(src, i) = NL /\ At(src, i + 1) = NL THEN Some(i)
    ELSE LogMessageEndAtFirstBlank(src, i + 1)

\* The loop that looks for the end of the message: the first i from
\* message_start on, with i <= src.len() - (2 + max_len), where "\n\n" is
\* followed by one of packet_begins; None when the loop runs out of buffer.
RECURSIVE LogMessageEnd(_, _)
LogMessageEnd(src, i) ==
    LET max_len == Len(EXPECTED_BEGINNING_OF_BUFFER)
    IN  IF i > Len(src) - (2 + max_len) THEN None
        ELSE IF /\ At(src, i) = NL
                /\ At(src, i + 1) = NL
                /\ \/ BeginsAt(src, i + 2, EXPECTED_BEGINNING_OF_BUFFER)
                   \/ BeginsAt(src, i + 2, EXPECTED_BEGINNING_OF_LOG_HEADER)
        THEN Some(i)
        ELSE LogMessageEnd(src, i + 1)

\* fn decode_log(&mut self, src)
decode_log(d, src) ==
    IF Len(src) < MINIMAL_LOG_LEN THEN TxtNoItem(d, src, "minimal")
    ELSE IF Slice(src, 0, 2) # EXPECTED_BEGINNING_OF_LOG_HEADER THEN enter_error_state(d, src)
    ELSE
    LET timestamp == IF \E k \in 3..(2 + DATE_FORMAT_LEN) : src[k] >= 128
                     THEN None
                     ELSE parse_timestamp(Slice(src, 2, 2 + DATE_FORMAT_LEN))
        ids == LogHeaderIds(src, 2 + DATE_FORMAT_LEN)
        level == LogHeaderLevel(src, ids.i)
        tag_start == level.i
        tag_end == LogTagEnd(src, tag_start)
        message_start == tag_end + Len(HEADER_END)
        message_end == LogMessageEnd(src, message_start)
    IN  IF timestamp = None THEN enter_error_state(d, src)
        ELSE IF ids.res = "error" THEN enter_error_state(d, src)
        ELSE IF ids.res = "panic" THEN TxtPanic(d, src, ids.why)
        ELSE IF level.res = "error" THEN enter_error_state(d, src)
        ELSE IF level.res = "panic" THEN TxtPanic(d, src, level.why)
        ELSE IF tag_end = Len(src) - Len(HEADER_END) THEN TxtNoItem(d, src, "tag")
        ELSE IF message_end = None THEN TxtNoItem(d, src, "message")
        ELSE TxtOutcome("item", advance(src, message_end[1] + 2),
                        d.is_in_error_state, d.error_data,
                        Some([type |-> "LogMessage", timestamp |-> timestamp[1],
                              uid |-> ids.uid, pid |-> ids.pid, tid |-> ids.tid,
                              level |-> level.level,
                              tag |-> trim(from_utf8_lossy(Slice(src, tag_start, tag_end))),
                              message |-> Slice(src, message_start, message_end[1])]),
                        "")

\* <LogcatStringDecoder as Decoder>::decode
TxtDecode(d, src) ==
    IF d.is_in_error_state THEN scan_out_error_state(d, src)
    ELSE IF Len(src) = 0 THEN TxtNoItem(d, src, "empty")
    ELSE IF At(src, 0) = DASH THEN decode_beginning_of_ring_buffer(d, src)
    ELSE IF At(src, 0) # LBRACKET THEN enter_error_state(d, src)
    ELSE decode_log(d, src)

------------------------------------------------------------------------------
\* The bytes on the pipe of `adb logcat -v long`.

\* The start of the ring buffer main.
\* "--------- beginning of main\n"
TxtMarkerMain ==
    <<45, 45, 45, 45, 45, 45, 45, 45, 45, 32, 98, 101, 103, 105, 110, 110, 105, 110, 103, 32,
      111, 102, 32, 109, 97, 105, 110, 10>>

\* An entry with uid, pid and tid.
\* "[ 2022-11-04 00:50:26.234185959 +0000 root:1234:5678 I/Tag ]\nhello\n\n"
TxtEntryUid ==
    <<91, 32, 50, 48, 50, 50, 45, 49, 49, 45, 48, 52, 32, 48, 48, 58, 53, 48, 58, 50,
      54, 46, 50, 51, 52, 49, 56, 53, 57, 53, 57, 32, 43, 48, 48, 48, 48, 32, 114, 111,
      111, 116, 58, 49, 50, 51, 52, 58, 53, 54, 55, 56, 32, 73, 47, 84, 97, 103, 32, 93,
      10, 104, 101, 108, 108, 111, 10, 10>>

\* An entry with pid and tid, padded with spaces, whose message holds a blank line.
\* "[ 2022-11-04 00:50:26.234185959 +0000  1234: 5678 D/Tag ]\nab\n\ncd\n\n"
TxtEntryPid ==
    <<91, 32, 50, 48, 50, 50, 45, 49, 49, 45, 48, 52, 32, 48, 48, 58, 53, 48, 58, 50,
      54, 46, 50, 51, 52, 49, 56, 53, 57, 53, 57, 32, 43, 48, 48, 48, 48, 32, 32, 49,
      50, 51, 52, 58, 32, 53, 54, 55, 56, 32, 68, 47, 84, 97, 103, 32, 93, 10, 97, 98,
      10, 10, 99, 100, 10, 10>>

\* An entry whose uid, pid and tid put the '/' at index 65.
\* "[ 2022-11-04 00:50:26.234185959 +0000 u10_a1234:1234567:1234567 V/t ]\nmsg\n\n"
TxtEntryLongIds ==
    <<91, 32, 50, 48, 50, 50, 45, 49, 49, 45, 48, 52, 32, 48, 48, 58, 53, 48, 58, 50,
      54, 46, 50, 51, 52, 49, 56, 53, 57, 53, 57, 32, 43, 48, 48, 48, 48, 32, 117, 49,
      48, 95, 97, 49, 50, 51, 52, 58, 49, 50, 51, 52, 53, 54, 55, 58, 49, 50, 51, 52,
      53, 54, 55, 32, 86, 47, 116, 32, 93, 10, 109, 115, 103, 10, 10>>

\* An entry with 30 padding spaces after the timestamp.
\* "[ 2022-11-04 00:50:26.234185959 +0000                              1:2 W/t ]\nmsg\n\n"
TxtEntryPadded ==
    <<91, 32, 50, 48, 50, 50, 45, 49, 49, 45, 48, 52, 32, 48, 48, 58, 53, 48, 58, 50,
      54, 46, 50, 51, 52, 49, 56, 53, 57, 53, 57, 32, 43, 48, 48, 48, 48, 32, 32, 32,
      32, 32, 32, 32, 32, 32, 32, 32, 32, 32, 32, 32, 32, 32, 32, 32, 32, 32, 32, 32,
      32, 32, 32, 32, 32, 32, 32, 49, 58, 50, 32, 87, 47, 116, 32, 93, 10, 109, 115, 103,
      10, 10>>

\* Bytes that are neither a marker nor an entry.
\* "garbage\n\n"
TxtGarbage ==
    <<103, 97, 114, 98, 97, 103, 101, 10, 10>>

\* Garbage that holds a blank line.
\* "ab\n\ncd\n\n"
TxtGarbageBlank ==
    <<97, 98, 10, 10, 99, 100, 10, 10>>

\* A marker whose ring name holds a space.
\* "--------- beginning of ma in\n\n"
TxtBadRingName ==
    <<45, 45, 45, 45, 45, 45, 45, 45, 45, 32, 98, 101, 103, 105, 110, 110, 105, 110, 103, 32,
      111, 102, 32, 109, 97, 32, 105, 110, 10, 10>>

\* A line of dashes that is no marker.
\* "--- x\n\n"
TxtBadMarker ==
    <<45, 45, 45, 32, 120, 10, 10>>

\* A blank line ahead of the first marker.
\* "\n\n"
TxtLeadingBlank ==
    <<10, 10>>

\* An entry whose pid is u32::MAX + 1.
\* "[ 2022-11-04 00:50:26.234185959 +0000 4294967296: 1 I/T ]\nmessage of the entry\n\n"
TxtEntryBigPid ==
    <<91, 32, 50, 48, 50, 50, 45, 49, 49, 45, 48, 52, 32, 48, 48, 58, 53, 48, 58, 50,
      54, 46, 50, 51, 52, 49, 56, 53, 57, 53, 57, 32, 43, 48, 48, 48, 48, 32, 52, 50,
      57, 52, 57, 54, 55, 50, 57, 54, 58, 32, 49, 32, 73, 47, 84, 32, 93, 10, 109, 101,
      115, 115, 97, 103, 101, 32, 111, 102, 32, 116, 104, 101, 32, 101, 110, 116, 114, 121, 10, 10>>

\* A header whose only colon-terminated token is not a number.
\* "[ 2022-11-04 00:50:26.234185959 +0000 root: 12 I/T ]\nmessage of the entry\n\n"
TxtEntryNamePid ==
    <<91, 32, 50, 48, 50, 50, 45, 49, 49, 45, 48, 52, 32, 48, 48, 58, 53, 48, 58, 50,
      54, 46, 50, 51, 52, 49, 56, 53, 57, 53, 57, 32, 43, 48, 48, 48, 48, 32, 114, 111,
      111, 116, 58, 32, 49, 50, 32, 73, 47, 84, 32, 93, 10, 109, 101, 115, 115, 97, 103, 101,
      32, 111, 102, 32, 116, 104, 101, 32, 101, 110, 116, 114, 121, 10, 10>>

\* A header whose timestamp has month 13.
\* "[ 2022-13-04 00:50:26.234185959 +0000 1:2 I/T ]\nmessage of the entry\n\n"
TxtEntryBadDate ==
    <<91, 32, 50, 48, 50, 50, 45, 49, 51, 45, 48, 52, 32, 48, 48, 58, 53, 48, 58, 50,
      54, 46, 50, 51, 52, 49, 56, 53, 57, 53, 57, 32, 43, 48, 48, 48, 48, 32, 49, 58,
      50, 32, 73, 47, 84, 32, 93, 10, 109, 101, 115, 115, 97, 103, 101, 32, 111, 102, 32, 116,
      104, 101, 32, 101, 110, 116, 114, 121, 10, 10>>

\* Samples that the decoder accepts when what follows them is buffered too.
TxtGoodSamples == {TxtMarkerMain, TxtEntryUid, TxtEntryPid, TxtEntryLongIds, TxtEntryPadded}

\* Samples that send the decoder into error recovery or make it panic.
TxtBadSamples ==
    {TxtGarbage, TxtGarbageBlank, TxtBadRingName, TxtBadMarker, TxtLeadingBlank,
     TxtEntryBigPid, TxtEntryNamePid, TxtEntryBadDate}

TxtSamples == TxtGoodSamples \cup TxtBadSamples

\* What may follow the first sample on the pipe.
TxtFollow == {TxtMarkerMain, TxtEntryUid}

RECURSIVE TxtTails(_)
TxtTails(n) ==
    IF n = 0 THEN {<<>>}
    ELSE {<<>>} \cup {f \o t : f \in TxtFollow, t \in TxtTails(n - 1)}

TxtStreams == {s \o t : s \in TxtSamples, t \in TxtTails(MaxTxtEntries - 1)}

------------------------------------------------------------------------------
\* The text decoder's task: FramedRead appends the bytes it reads from the
\* pipe to the buffer and calls decode.

\* LogcatStringDecoder::new()
TxtNew == [is_in_error_state |-> FALSE, error_data |-> <<>>]

TxtIdle == [kind |-> "idle", before |-> <<>>, dec |-> TxtNew, why |-> ""]

TxtInit ==
    /\ txtStream \in TxtStreams
    /\ txtFed = 0
    /\ txtSrc = <<>>
    /\ txtDec = TxtNew
    /\ txtOut = <<>>
    /\ txtLast = TxtIdle

\* A decoder that is given no bytes.
TxtParked ==
    /\ txtStream = <<>>
    /\ txtFed = 0
    /\ txtSrc = <<>>
    /\ txtDec = TxtNew
    /\ txtOut = <<>>
    /\ txtLast = TxtIdle

\* One more byte arrives from the pipe.
TxtAppend ==
    /\ txtLast.kind # "abort"
    /\ txtFed < Len(txtStream)
    /\ txtFed' = txtFed + 1
    /\ txtSrc' = Append(txtSrc, txtStream[txtFed + 1])
    /\ txtLast' = TxtIdle
    /\ UNCHANGED <<txtStream, txtDec, txtOut>>
    /\ UNCHANGED binVars
    /\ UNCHANGED devVars
    /\ UNCHANGED trkVars
    /\ UNCHANGED uiVars

\* One call of decode on the buffer.  FramedRead reads before it first calls
\* decode.
TxtDecodeCall ==
    /\ txtLast.kind # "abort"
    /\ txtFed > 0
    /\ LET r == TxtDecode(txtDec, txtSrc)
       IN  /\ txtSrc' = r.src
           /\ txtDec' = [is_in_error_state |-> r.is_in_error_state, error_data |-> r.error_data]
           /\ txtOut' = IF r.kind = "item" THEN Append(txtOut, r.item[1]) ELSE txtOut
           /\ txtLast' = [kind |-> r.kind, before |-> txtSrc, dec |-> txtDec, why |-> r.why]
    /\ UNCHANGED <<txtStream, txtFed>>
    /\ UNCHANGED binVars
    /\ UNCHANGED devVars
    /\ UNCHANGED trkVars
    /\ UNCHANGED uiVars

TxtNext == TxtAppend \/ TxtDecodeCall

------------------------------------------------------------------------------
\* Device enumeration: AdbDevice::parse (devices.rs) and the devices()
\* streams of commands/adb.rs and commands/fastboot.rs.  A line is the
\* sequence of its bytes; the lines modelled are ASCII.

\* The character classes of the regular expression of AdbDevice::parse.
XDigitBytes == (48..57) \cup (65..70) \cup (97..102)
AlphaBytes == (65..90) \cup (97..122)
WhiteSpaceBytes == {9, 10, 11, 12, 13, 32}

\* A devpath class that lets a space through.
DevpathBytesWithSpace == (48..57) \cup (65..90) \cup (97..122) \cup {45, 58, 32}

\* [[[:alnum:]]\-:]
DevpathBytes == (48..57) \cup (65..90) \cup (97..122) \cup {45, 58}

\* The literals of the optional block (?P<adb_expanded> ...).
KW_PRODUCT == <<112, 114, 111, 100, 117, 99, 116, 58>>
KW_MODEL == <<109, 111, 100, 101, 108, 58>>
KW_DEVICE == <<100, 101, 118, 105, 99, 101, 58>>
KW_TRANSPORT_ID == <<116, 114, 97, 110, 115, 112, 111, 114, 116, 95, 105, 100, 58>>

\* \s followed by the literal kw at index i of the line.
KeywordAt(line, i, kw) ==
    /\ i < Len(line)
    /\ At(line, i) \in WhiteSpaceBytes
    /\ StartsWith(advance(line, i + 1), kw)

\* (.+) over line[a..b]: at least one character, none of them '\n'.
DotPlus(line, a, b) ==
    /\ a < b
    /\ \A k \in a..(b - 1) : At(line, k) # NL

\* The ways the optional block matches from index g on: the indices of the
\* \s before model:, device: and transport_id:.
ExpandedMatches(line, g) ==
    IF ~KeywordAt(line, g, KW_PRODUCT) THEN {}
    ELSE LET at(kw) == {i \in 0..Len(line) : KeywordAt(line, i, kw)}
         IN  UNION {UNION {
                 {<<m, v, t>> : t \in {t \in at(KW_TRANSPORT_ID) :
                     /\ DotPlus(line, v + 1 + Len(KW_DEVICE), t)
                     /\ t + 1 + Len(KW_TRANSPORT_ID) < Len(line)
                     /\ is_ascii_digit(At(line, t + 1 + Len(KW_TRANSPORT_ID)))}}
                 : v \in {v \in at(KW_DEVICE) : DotPlus(line, m + 1 + Len(KW_MODEL), v)}}
                 : m \in {m \in at(KW_MODEL) : DotPlus(line, g + 1 + Len(KW_PRODUCT), m)}}

\* The match the regex engine reports: each greedy (.+) is as long as a
\* match of the rest allows, the earlier ones first.
GreedyMatch(ms) ==
    CHOOSE x \in ms : \A y \in ms :
        \/ y[1] < x[1]
        \/ y[1] = x[1] /\ y[2] < x[2]
        \/ y[1] = x[1] /\ y[2] = x[2] /\ y[3] <= x[3]

\* RE.captures(line): the regex is anchored at the start of the line only.
\* Each of serial, \s+, connection_state and devpath is the longest run of
\* its class (no byte of a class can stand for the item that follows it).
captures(line) ==
    LET s == SkipWhile(line, 0, XDigitBytes)
        w == SkipWhile(line, s, WhiteSpaceBytes)
        c == SkipWhile(line, w, AlphaBytes)
        d == SkipWhile(line, c + 1, DevpathBytes)
    IN  IF ~(/\ s > 0
             /\ w > s
             /\ c > w
             /\ c < Len(line)
             /\ At(line, c) \in WhiteSpaceBytes
             /\ d > c + 1)
        THEN None
        ELSE LET ms == ExpandedMatches(line, d)
                 base == [serial |-> Slice(line, 0, s),
                          connection_state |-> Slice(line, w, c),
                          devpath |-> Slice(line, c + 1, d)]
             IN  IF ms = {}
                 THEN Some([base |-> base, adb_expanded |-> None])
                 ELSE LET x == GreedyMatch(ms)
                          t == x[3] + 1 + Len(KW_TRANSPORT_ID)
                      IN  Some([base |-> base,
                                adb_expanded |-> Some(
                                    [product |-> Slice(line, d + 1 + Len(KW_PRODUCT), x[1]),
                                     model |-> Slice(line, x[1] + 1 + Len(KW_MODEL), x[2]),
                                     device |-> Slice(line, x[2] + 1 + Len(KW_DEVICE), x[3]),
                                     transport_id |-> Slice(line, t, SkipWhile(line, t, DigitBytes))])])

\* The decimal digits of usize::MAX on a 64-bit target.
USIZE_MAX_DIGITS == <<49, 56, 52, 52, 54, 55, 52, 52, 48, 55, 51, 55, 48, 57, 53, 53, 49, 54, 49, 53>>

\* A decimal digit string without its leading zeros.
RECURSIVE StripZeros(_)
StripZeros(digits) ==
    IF Len(digits) > 1 /\ digits[1] = 48 THEN StripZeros(Tail(digits)) ELSE digits

\* a > b for two digit strings of the same length.
RECURSIVE DigitsGreater(_, _)
DigitsGreater(a, b) ==
    IF a = <<>> THEN FALSE
    ELSE IF a[1] # b[1] THEN a[1] > b[1]
    ELSE DigitsGreater(Tail(a), Tail(b))

\* usize::from_str_radix(s, 10) on a string of ASCII digits: Err (None) when
\* the value passes usize::MAX.  The value is kept as its digits.
usize_from_str_radix(digits) ==
    LET v == StripZeros(digits)
    IN  IF \/ Len(v) > Len(USIZE_MAX_DIGITS)
           \/ Len(v) = Len(USIZE_MAX_DIGITS) /\ DigitsGreater(v, USIZE_MAX_DIGITS)
        THEN None
        ELSE Some(v)

\* AdbDevice::parse.  Without a match it returns Err(Error::Parse(line)).
\* With a match it computes the fields and then reaches todo!(), which
\* panics; the Ok(AdbDevice { .. }) that would return them is commented out.
AdbDevice_parse(line) ==
    LET cap == captures(line)
    IN  IF cap = None
        THEN [kind |-> "err", device |-> None,
              error |-> [type |-> "Parse", line |-> line], why |-> ""]
        ELSE IF /\ cap[1].adb_expanded # None
                /\ usize_from_str_radix(cap[1].adb_expanded[1].transport_id) = None
        THEN [kind |-> "abort", device |-> None, error |-> None, why |-> "expect"]
        ELSE [kind |-> "abort", device |-> None, error |-> None, why |-> "todo"]

\* Lines of a device listing.
\* "List of devices attached"
DevHeaderLine == <<76, 105, 115, 116, 32, 111, 102, 32, 100, 101, 118, 105, 99, 101, 115, 32, 97, 116, 116, 97, 99, 104, 101, 100>>
\* "* daemon started successfully"
DevDaemonLine == <<42, 32, 100, 97, 101, 109, 111, 110, 32, 115, 116, 97, 114, 116, 101, 100, 32, 115, 117, 99, 99, 101, 115, 115, 102, 117, 108, 108, 121>>
\* "abc1\tdevice", a line of the short listing
DevShortLine == <<97, 98, 99, 49, 9, 100, 101, 118, 105, 99, 101>>
\* "abc1 device usb:1"
DevPlainLine == <<97, 98, 99, 49, 32, 100, 101, 118, 105, 99, 101, 32, 117, 115, 98, 58, 49>>
\* "0a1b       device usb:1-1 product:p x model:m device:d transport_id:3"
DevExpandedLine == <<48, 97, 49, 98, 32, 32, 32, 32, 32, 32, 32, 100, 101, 118, 105, 99, 101, 32, 117, 115, 98, 58, 49, 45, 49, 32, 112, 114, 111, 100, 117, 99, 116, 58, 112, 32, 120, 32, 109, 111, 100, 101, 108, 58, 109, 32, 100, 101, 118, 105, 99, 101, 58, 100, 32, 116, 114, 97, 110, 115, 112, 111, 114, 116, 95, 105, 100, 58, 51>>
\* "abc1 device  usb:1", with two spaces before the devpath
DevTwoSpacesLine == <<97, 98, 99, 49, 32, 100, 101, 118, 105, 99, 101, 32, 32, 117, 115, 98, 58, 49>>

DevLineSamples ==
    {<<>>, DevHeaderLine, DevDaemonLine, DevShortLine, DevPlainLine, DevExpandedLine,
     DevTwoSpacesLine}

RECURSIVE DevListings(_)
DevListings(n) ==
    IF n = 0 THEN {<<>>}
    ELSE {<<>>} \cup {<<l>> \o t : l \in DevLineSamples, t \in DevListings(n - 1)}

DevIdle == [kind |-> "idle", line |-> <<>>, device |-> None, error |-> None, why |-> ""]

\* adb::devices() or fastboot::devices() has spawned its command.
DevInit ==
    /\ devTool \in {"adb", "fastboot"}
    /\ devLines \in DevListings(MaxDevLines)
    /\ devRead = 0
    /\ devOut = <<>>
    /\ devStatus = "live"
    /\ devLast = DevIdle

\* No device listing is read.
DevParked ==
    /\ devTool = "none"
    /\ devLines = <<>>
    /\ devRead = 0
    /\ devOut = <<>>
    /\ devStatus = "parked"
    /\ devLast = DevIdle

\* The body of the loop of devices(), from the line at index read on: a
\* blank line or the end of the output ends the stream; any other line is
\* parsed and `yield AdbDevice::parse(&line)?` yields the Err and ends the
\* stream (try_stream! returns at the first error).
DevLoop(read) ==
    IF read >= Len(devLines) \/ devLines[read + 1] = <<>>
    THEN /\ devRead' = (IF read >= Len(devLines) THEN read ELSE read + 1)
         /\ devStatus' = "ended"
         /\ UNCHANGED <<devOut, devLast>>
    ELSE LET line == devLines[read + 1]
             r == AdbDevice_parse(line)
         IN  /\ devRead' = read + 1
             /\ devLast' = [kind |-> r.kind, line |-> line, device |-> r.device,
                             error |-> r.error, why |-> r.why]
             /\ devOut' = IF r.kind = "err" THEN Append(devOut, [ok |-> FALSE, error |-> r.error])
                          ELSE devOut
             /\ devStatus' = IF r.kind = "err" THEN "ended" ELSE "abort"

\* One poll of the devices() stream.  adb::devices() first reads the header
\* line and asserts it; fastboot::devices() starts with the loop.
DevPoll ==
    /\ devStatus = "live"
    /\ IF devTool = "adb" /\ devRead = 0
       THEN IF devLines # <<>> /\ devLines[1] = DevHeaderLine
            THEN DevLoop(1)
            ELSE /\ devStatus' = "abort"
                 /\ devLast' = [kind |-> "abort", line |-> <<>>, device |-> None,
                                 error |-> None, why |-> "assert"]
                 /\ devRead' = (IF devLines = <<>> THEN 0 ELSE 1)
                 /\ UNCHANGED devOut
       ELSE DevLoop(devRead)
    /\ UNCHANGED <<devTool, devLines>>
    /\ UNCHANGED binVars
    /\ UNCHANGED txtVars
    /\ UNCHANGED trkVars
    /\ UNCHANGED uiVars

DevNext == DevPoll

------------------------------------------------------------------------------
\* Device tracking: the decoder of the length-framed tracking feed.  Each
\* frame is a length field of 4 hex digits and that many payload bytes, the
\* payload being device lines joined by newlines; the lines go through
\* AdbDevice::parse.

\* The value of a hex digit.
HexDigitValue(c) ==
    IF c \in 48..57 THEN c - 48
    ELSE IF c \in 65..70 THEN c - 55
    ELSE c - 87

\* The length field: None when one of the 4 bytes is not a hex digit.
HexLength(src) ==
    IF \A k \in 1..4 : src[k] \in XDigitBytes
    THEN Some(4096 * HexDigitValue(src[1]) + 256 * HexDigitValue(src[2])
              + 16 * HexDigitValue(src[3]) + HexDigitValue(src[4]))
    ELSE None

\* Whether bytes are the UTF-8 encoding of a text (overlong forms and
\* surrogates are not told apart).
RECURSIVE is_utf8(_)
is_utf8(bytes) ==
    IF bytes = <<>> THEN TRUE
    ELSE LET c == bytes[1]
             n == IF c < 128 THEN 1
                  ELSE IF c \in 194..223 THEN 2
                  ELSE IF c \in 224..239 THEN 3
                  ELSE IF c \in 240..244 THEN 4
                  ELSE 0
         IN  /\ n > 0
             /\ Len(bytes) >= n
             /\ \A k \in 2..n : bytes[k] \in 128..191
             /\ is_utf8(SubSeq(bytes, n + 1, Len(bytes)))

\* The non-empty lines of a payload split at its newlines.  cur is the line
\* read so far.
RECURSIVE PayloadLines(_, _)
PayloadLines(payload, cur) ==
    IF payload = <<>> THEN (IF cur = <<>> THEN <<>> ELSE <<cur>>)
    ELSE IF payload[1] = NL
    THEN (IF cur = <<>> THEN <<>> ELSE <<cur>>) \o PayloadLines(Tail(payload), <<>>)
    ELSE PayloadLines(Tail(payload), Append(cur, payload[1]))

\* One Result per line; a panic of AdbDevice::parse ends the call.
RECURSIVE ParseLines(_, _)
ParseLines(lines, results) ==
    IF lines = <<>> THEN [kind |-> "item", results |-> results, why |-> ""]
    ELSE LET r == AdbDevice_parse(lines[1])
         IN  IF r.kind = "abort" THEN [kind |-> "abort", results |-> results, why |-> r.why]
             ELSE ParseLines(Tail(lines), Append(results, [ok |-> FALSE, error |-> r.error]))

TrkOutcome(kind, src, item, why) == [kind |-> kind, src |-> src, item |-> item, why |-> why]

\* decode of the tracking-frame decoder.
TrkDecode(src) ==
    IF Len(src) < 4 THEN TrkOutcome("none", src, None, "length")
    ELSE LET len == HexLength(src)
         IN  IF len = None THEN TrkOutcome("error", src, None, "HexLengthParseError")
             ELSE IF Len(src) < 4 + len[1] THEN TrkOutcome("none", src, None, "payload")
             ELSE LET payload == Slice(src, 4, 4 + len[1])
                  IN  IF ~is_utf8(payload) THEN TrkOutcome("error", src, None, "Utf8DecodeError")
                      ELSE LET r == ParseLines(PayloadLines(payload, <<>>), <<>>)
                           IN  IF r.kind = "abort" THEN TrkOutcome("abort", src, None, r.why)
                               ELSE TrkOutcome("item", advance(src, 4 + len[1]),
                                               Some(r.results), "")

\* Frames of a tracking feed.
\* "0012abc1 device usb:1\n"
TrkExampleFrame == <<48, 48, 49, 50, 97, 98, 99, 49, 32, 100, 101, 118, 105, 99, 101, 32, 117, 115, 98, 58, 49, 10>>
\* "0000"
TrkEmptyFrame == <<48, 48, 48, 48>>
\* "0019List of devices attached\n"
TrkHeaderFrame == <<48, 48, 49, 57, 76, 105, 115, 116, 32, 111, 102, 32, 100, 101, 118, 105, 99, 101, 115, 32, 97, 116, 116, 97, 99, 104, 101, 100, 10>>
\* "0025abc1\tdevice\n\nList of devices attached"
TrkTwoBadLinesFrame == <<48, 48, 50, 53, 97, 98, 99, 49, 9, 100, 101, 118, 105, 99, 101, 10, 10, 76, 105, 115, 116, 32, 111, 102, 32, 100, 101, 118, 105, 99, 101, 115, 32, 97, 116, 116, 97, 99, 104, 101, 100>>
\* "0030* daemon started successfully\nabc1 device usb:1\n"
TrkMixedFrame == <<48, 48, 51, 48, 42, 32, 100, 97, 101, 109, 111, 110, 32, 115, 116, 97, 114, 116, 101, 100, 32, 115, 117, 99, 99, 101, 115, 115, 102, 117, 108, 108, 121, 10, 97, 98, 99, 49, 32, 100, 101, 118, 105, 99, 101, 32, 117, 115, 98, 58, 49, 10>>
\* "00zzabc1"
TrkBadHexFrame == <<48, 48, 122, 122, 97, 98, 99, 49>>
\* "0003", 'a', 0xff, '\n'
TrkBadUtf8Frame == <<48, 48, 48, 51, 97, 255, 10>>

TrkSamples ==
    {TrkExampleFrame, TrkEmptyFrame, TrkHeaderFrame, TrkTwoBadLinesFrame, TrkMixedFrame,
     TrkBadHexFrame, TrkBadUtf8Frame}

TrkFollow == {TrkEmptyFrame, TrkHeaderFrame}

RECURSIVE TrkTails(_)
TrkTails(n) ==
    IF n = 0 THEN {<<>>}
    ELSE {<<>>} \cup {f \o t : f \in TrkFollow, t \in TrkTails(n - 1)}

TrkStreams == {s \o t : s \in TrkSamples, t \in TrkTails(MaxTrkFrames - 1)}

TrkInit ==
    /\ trkStream \in TrkStreams
    /\ trkFed = 0
    /\ trkSrc = <<>>
    /\ trkOut = <<>>
    /\ trkLast = Idle

\* No tracking feed is read.
TrkParked ==
    /\ trkStream = <<>>
    /\ trkFed = 0
    /\ trkSrc = <<>>
    /\ trkOut = <<>>
    /\ trkLast = Idle

\* One more byte of the feed arrives.
TrkAppend ==
    /\ trkLast.kind # "abort"
    /\ trkFed < Len(trkStream)
    /\ trkFed' = trkFed + 1
    /\ trkSrc' = Append(trkSrc, trkStream[trkFed + 1])
    /\ trkLast' = Idle
    /\ UNCHANGED <<trkStream, trkOut>>
    /\ UNCHANGED <<binVars, txtVars, devVars>>
    /\ UNCHANGED uiVars

\* One call of decode on the buffer.
TrkDecodeCall ==
    /\ trkLast.kind # "abort"
    /\ trkFed > 0
    /\ LET r == TrkDecode(trkSrc)
       IN  /\ trkSrc' = r.src
           /\ trkOut' = IF r.kind = "item" THEN Append(trkOut, r.item[1]) ELSE trkOut
           /\ trkLast' = [kind |-> r.kind, before |-> trkSrc, why |-> r.why]
    /\ UNCHANGED <<trkStream, trkFed>>
    /\ UNCHANGED <<binVars, txtVars, devVars>>
    /\ UNCHANGED uiVars

TrkNext == TrkAppend \/ TrkDecodeCall

------------------------------------------------------------------------------
\* Device selection (device_select.rs): StatefulList, DeviceSelectApp and
\* the Cache it saves to (cache.rs).  Indices are those of the code, from 0.

SelSerials == {"abc1", "abc2"}

\* AdbDeviceProperties and AdbDevice of an enumerated device.
SelProps(state) == [connection_state |-> state, devpath |-> "usb:1", live |-> None]

SelDevice(serial, state) == [serial |-> serial, properties |-> SelProps(state)]

\* One device as adb and as fastboot report it, and a second device.
SelDeviceSamples ==
    {SelDevice("abc1", "device"), SelDevice("abc1", "fastboot"), SelDevice("abc2", "device")}

\* The Vec<AdbDevice> of one enumeration.
RECURSIVE SelListings(_)
SelListings(n) ==
    IF n = 0 THEN {<<>>}
    ELSE {<<>>} \cup {<<d>> \o t : d \in SelDeviceSamples, t \in SelListings(n - 1)}

\* Cache.devices as read from disk: a map from serials to properties.
SelCaches == UNION {[S -> {SelProps("device")}] : S \in SUBSET SelSerials}

\* The orders in which a HashMap may hand out the keys S.
Orders(S) ==
    {o \in [1..Cardinality(S) -> S] : \A i, j \in 1..Cardinality(S) : o[i] = o[j] => i = j}

\* Cache::save_device
save_device(cache, serial, properties) ==
    IF serial \in DOMAIN cache
    THEN [cache EXCEPT ![serial] =
             [connection_state |-> properties.connection_state,
              devpath |-> properties.devpath,
              live |-> IF properties.live # None THEN properties.live ELSE @.live]]
    ELSE [s \in DOMAIN cache \cup {serial} |-> IF s = serial THEN properties ELSE cache[s]]

\* Cache::remove_device
remove_device(cache, serial) == [s \in DOMAIN cache \ {serial} |-> cache[s]]

\* The first loop of load_initial_state, from the k-th live device on: the
\* device is saved to the cache, its index is put into live_device_map under
\* its serial, and an item with cache: None is pushed.
RECURSIVE LoadLive(_, _, _)
LoadLive(live_devices, k, acc) ==
    IF k > Len(live_devices) THEN acc
    ELSE LET device == live_devices[k]
         IN  LoadLive(live_devices, k + 1,
                 [cache |-> save_device(acc.cache, device.serial, device.properties),
                  live_device_map |->
                      [s \in DOMAIN acc.live_device_map \cup {device.serial} |->
                          IF s = device.serial THEN k - 1 ELSE acc.live_device_map[s]],
                  devices |-> Append(acc.devices,
                      [serial |-> device.serial, live |-> Some(device.properties),
                       cache |-> None])])

\* The second loop of load_initial_state over cache.devices, in the order
\* the map hands its entries out, from the k-th on.
RECURSIVE LoadCached(_, _, _)
LoadCached(order, k, acc) ==
    IF k > Len(order) THEN acc
    ELSE LET serial == order[k]
             properties == acc.cache[serial]
         IN  LoadCached(order, k + 1,
                 IF serial \in DOMAIN acc.live_device_map
                 THEN [acc EXCEPT !.devices[acc.live_device_map[serial] + 1].cache =
                                      Some(properties)]
                 ELSE [acc EXCEPT !.devices = Append(@,
                          [serial |-> serial, live |-> None, cache |-> Some(properties)])])

\* DeviceSelectApp::load_initial_state
load_initial_state(cache, live_devices, order) ==
    LET live == LoadLive(live_devices, 1,
                    [cache |-> cache, live_device_map |-> <<>>, devices |-> <<>>])
    IN  LoadCached(order, 1, live)

\* devices.into_iter().map(|d| (d.serial.clone(), d)).collect(): of two
\* devices with one serial the later one stays.
NewDevices(devices) ==
    [s \in {devices[k].serial : k \in 1..Len(devices)} |->
        devices[CHOOSE k \in 1..Len(devices) :
                    /\ devices[k].serial = s
                    /\ \A j \in (k + 1)..Len(devices) : devices[j].serial # s]]

\* The first loop of update_devices, from the k-th item on.
\* current.cache.as_mut().unwrap() panics on an item without cache entry.
RECURSIVE UpdateCurrent(_, _, _, _)
UpdateCurrent(items, k, new_devices, cache) ==
    IF k > Len(items)
    THEN [kind |-> "ok", items |-> items, new_devices |-> new_devices, cache |-> cache]
    ELSE LET current == items[k]
         IN  IF current.serial \in DOMAIN new_devices
             THEN LET new_device == new_devices[current.serial]
                      rest == [s \in DOMAIN new_devices \ {current.serial} |-> new_devices[s]]
                  IN  IF current.cache = None
                      THEN [kind |-> "abort",
                            items |-> [items EXCEPT ![k].live = Some(new_device.properties)],
                            new_devices |-> rest, cache |-> cache]
                      ELSE LET c == [connection_state |-> new_device.properties.connection_state,
                                     devpath |-> new_device.properties.devpath,
                                     live |-> IF new_device.properties.live # None
                                              THEN new_device.properties.live
                                              ELSE current.cache[1].live]
                           IN  UpdateCurrent(
                                   [items EXCEPT ![k] = [serial |-> current.serial,
                                                         live |-> Some(new_device.properties),
                                                         cache |-> Some(c)]],
                                   k + 1, rest, save_device(cache, current.serial, c))
             ELSE UpdateCurrent([items EXCEPT ![k].live = None], k + 1, new_devices, cache)

\* The second loop of update_devices over the devices left in the map, in
\* the order the map hands them out, from the k-th on.
RECURSIVE AddNew(_, _, _, _, _)
AddNew(order, k, new_devices, items, cache) ==
    IF k > Len(order) THEN [items |-> items, cache |-> cache]
    ELSE LET device == new_devices[order[k]]
         IN  AddNew(order, k + 1, new_devices,
                    Append(items, [serial |-> order[k], live |-> Some(device.properties),
                                   cache |-> Some(device.properties)]),
                    save_device(cache, order[k], device.properties))

\* StatefulList::next.  items.len() - 1 on an empty list underflows.
next(items, selected) ==
    IF selected # None
    THEN IF items = <<>> THEN [kind |-> "abort", selected |-> selected]
         ELSE [kind |-> "ok",
               selected |-> Some(IF selected[1] >= Len(items) - 1 THEN 0 ELSE selected[1] + 1)]
    ELSE [kind |-> "ok", selected |-> IF items = <<>> THEN None ELSE Some(0)]

\* StatefulList::previous
previous(items, selected) ==
    IF selected # None
    THEN IF selected[1] = 0
         THEN IF items = <<>> THEN [kind |-> "abort", selected |-> selected]
              ELSE [kind |-> "ok", selected |-> Some(Len(items) - 1)]
         ELSE [kind |-> "ok", selected |-> Some(selected[1] - 1)]
    ELSE [kind |-> "ok", selected |-> IF items = <<>> THEN None ELSE Some(0)]

\* Vec::remove(index)
remove(items, index) == SubSeq(items, 1, index) \o SubSeq(items, index + 2, Len(items))

\* A delete that leaves the selection where it was.
delete_selected_keeps_index(items, selected) ==
    IF selected = None THEN [kind |-> "ok", items |-> items, selected |-> selected]
    ELSE [kind |-> "ok", items |-> remove(items, selected[1]), selected |-> selected]

\* StatefulList::delete_selected.  Vec::remove panics on an index that is
\* not in the list.
delete_selected(items, selected) ==
    IF selected = None THEN [kind |-> "ok", items |-> items, selected |-> selected]
    ELSE IF selected[1] >= Len(items)
    THEN [kind |-> "abort", items |-> items, selected |-> selected]
    ELSE LET left == remove(items, selected[1])
         IN  IF left = <<>> THEN [kind |-> "ok", items |-> left, selected |-> None]
             ELSE [kind |-> next(left, selected).kind, items |-> left,
                   selected |-> next(left, selected).selected]

\* StatefulList::selected
selected_item(items, selected) ==
    IF selected # None /\ selected[1] < Len(items) THEN Some(items[selected[1] + 1]) ELSE None

SelEvent(op, why) == [op |-> op, items |-> selItems, selected |-> selSelected, why |-> why]

\* load_initial_state has returned the app and run has started.
SelInit ==
    /\ \E cache \in SelCaches, live_devices \in SelListings(MaxSelDevices) :
           \E order \in Orders(DOMAIN LoadLive(live_devices, 1,
                            [cache |-> cache, live_device_map |-> <<>>,
                             devices |-> <<>>]).cache) :
               LET app == load_initial_state(cache, live_devices, order)
               IN  /\ selItems = app.devices
                   /\ selCache = app.cache
    /\ selSelected = None
    /\ selQuery = "live"
    /\ selStatus = "running"
    /\ selLast = [op |-> "load_initial_state", items |-> <<>>, selected |-> None, why |-> ""]

\* No device selection runs.
SelParked ==
    /\ selItems = <<>>
    /\ selSelected = None
    /\ selCache = <<>>
    /\ selQuery = "parked"
    /\ selStatus = "parked"
    /\ selLast = [op |-> "", items |-> <<>>, selected |-> None, why |-> ""]

\* Event::Devices(Ok(devices)): update_devices; a failed persist makes run
\* return the error.
SelDevicesOk ==
    /\ selStatus = "running"
    /\ selQuery = "live"
    /\ \E devices \in SelListings(MaxSelDevices), persisted \in BOOLEAN :
           LET r == UpdateCurrent(selItems, 1, NewDevices(devices), selCache)
           IN  IF r.kind = "abort"
               THEN /\ selItems' = r.items
                    /\ selCache' = r.cache
                    /\ selStatus' = "abort"
                    /\ selLast' = SelEvent("update_devices", "unwrap")
               ELSE \E order \in Orders(DOMAIN r.new_devices) :
                        LET a == AddNew(order, 1, r.new_devices, r.items, r.cache)
                        IN  /\ selItems' = a.items
                            /\ selCache' = a.cache
                            /\ selStatus' = IF persisted THEN "running" ELSE "returned"
                            /\ selLast' = SelEvent("update_devices",
                                                   IF persisted THEN "" ELSE "io")
    /\ UNCHANGED <<selSelected, selQuery>>
    /\ UNCHANGED <<decVars, logVars, viewVars>>

\* Event::Devices(Err(_)): the arm `_ => {}` drops the error.  The stream of
\* query_devices_continuously has ended with it (`yield devices?`).
SelDevicesErr ==
    /\ selStatus = "running"
    /\ selQuery = "live"
    /\ selQuery' = "ended"
    /\ selLast' = SelEvent("devices_err", "")
    /\ UNCHANGED <<selItems, selSelected, selCache, selStatus>>
    /\ UNCHANGED <<decVars, logVars, viewVars>>

\* query_devices.next() on the ended stream is None, and devices.unwrap()
\* panics.
SelDevicesNone ==
    /\ selStatus = "running"
    /\ selQuery = "ended"
    /\ selStatus' = "abort"
    /\ selLast' = SelEvent("devices_none", "unwrap")
    /\ UNCHANGED <<selItems, selSelected, selCache, selQuery>>
    /\ UNCHANGED <<decVars, logVars, viewVars>>

\* KeyCode::Char('q')
SelQuit ==
    /\ selStatus = "running"
    /\ selStatus' = "returned"
    /\ selLast' = SelEvent("q", "")
    /\ UNCHANGED <<selItems, selSelected, selCache, selQuery>>
    /\ UNCHANGED <<decVars, logVars, viewVars>>

\* KeyCode::Left | KeyCode::Char('h')
SelUnselect ==
    /\ selStatus = "running"
    /\ selSelected' = None
    /\ selLast' = SelEvent("unselect", "")
    /\ UNCHANGED <<selItems, selCache, selQuery, selStatus>>
    /\ UNCHANGED <<decVars, logVars, viewVars>>

\* KeyCode::Down | KeyCode::Char('j')
SelNext ==
    /\ selStatus = "running"
    /\ LET r == next(selItems, selSelected)
       IN  /\ selSelected' = r.selected
           /\ selStatus' = IF r.kind = "abort" THEN "abort" ELSE "running"
           /\ selLast' = SelEvent("next", IF r.kind = "abort" THEN "underflow" ELSE "")
    /\ UNCHANGED <<selItems, selCache, selQuery>>
    /\ UNCHANGED <<decVars, logVars, viewVars>>

\* KeyCode::Up | KeyCode::Char('k')
SelPrevious ==
    /\ selStatus = "running"
    /\ LET r == previous(selItems, selSelected)
       IN  /\ selSelected' = r.selected
           /\ selStatus' = IF r.kind = "abort" THEN "abort" ELSE "running"
           /\ selLast' = SelEvent("previous", IF r.kind = "abort" THEN "underflow" ELSE "")
    /\ UNCHANGED <<selItems, selCache, selQuery>>
    /\ UNCHANGED <<decVars, logVars, viewVars>>

\* KeyCode::Delete: with an item selected, the item's cache entry is
\* removed, the cache is persisted (a failure makes run return the error)
\* and delete_selected is called.
SelDelete ==
    /\ selStatus = "running"
    /\ LET item == selected_item(selItems, selSelected)
       IN  IF item = None
           THEN /\ selLast' = SelEvent("Delete", "none")
                /\ UNCHANGED <<selItems, selSelected, selCache, selStatus>>
           ELSE \E persisted \in BOOLEAN :
                    IF ~persisted
                    THEN /\ selCache' = remove_device(selCache, item[1].serial)
                         /\ selStatus' = "returned"
                         /\ selLast' = SelEvent("Delete", "io")
                         /\ UNCHANGED <<selItems, selSelected>>
                    ELSE LET r == delete_selected(selItems, selSelected)
                         IN  /\ selCache' = remove_device(selCache, item[1].serial)
                             /\ selItems' = r.items
                             /\ selSelected' = r.selected
                             /\ selStatus' = IF r.kind = "abort" THEN "abort" ELSE "running"
                             /\ selLast' = SelEvent("delete_selected",
                                                    IF r.kind = "abort" THEN "underflow" ELSE "")
    /\ UNCHANGED selQuery
    /\ UNCHANGED <<decVars, logVars, viewVars>>

\* KeyCode::Enter: with an item selected run returns its serial.
SelEnter ==
    /\ selStatus = "running"
    /\ selected_item(selItems, selSelected) # None
    /\ selStatus' = "returned"
    /\ selLast' = SelEvent("Enter", "")
    /\ UNCHANGED <<selItems, selSelected, selCache, selQuery>>
    /\ UNCHANGED <<decVars, logVars, viewVars>>

SelectNext ==
    \/ SelDevicesOk \/ SelDevicesErr \/ SelDevicesNone
    \/ SelQuit \/ SelUnselect \/ SelNext \/ SelPrevious \/ SelDelete \/ SelEnter

------------------------------------------------------------------------------
\* The log viewers: the Log widget with its LogState (widgets/log.rs) and
\* LogcatApp (logcat.rs).  Their entries are LogMessages of the binary
\* decoder; rows and indices are those of the code, from 0.

\* A decoded entry of the main buffer and one of the events buffer.
LogTextEntry == BinDecode(BinC1Entry).item[1]

LogBinaryEntry == BinDecode(BinEventsEntry).item[1]

LogEntries == {LogTextEntry, LogBinaryEntry}

Autoscroll == [type |-> "Autoscroll", index |-> 0]

Bottom(index) == [type |-> "Bottom", index |-> index]

Top(index) == [type |-> "Top", index |-> index]

Range(start, end) == [kind |-> "ok", start |-> start, end |-> end]

\* LogState::rows_to_display.  index - height + 1 underflows for an index
\* below height: with overflow checks the subtraction panics; without them
\* it wraps, and the sum is 0 for index = height - 1 and above every
\* index otherwise (kind "wrapped": a range whose start is past its end).
rows_to_display(logs, anchor, height, overflow_checks) ==
    IF Len(logs) <= height THEN Range(0, Len(logs))
    ELSE IF anchor.type = "Autoscroll" THEN Range(Len(logs) - height, Len(logs))
    ELSE IF anchor.type = "Top" THEN Range(anchor.index, anchor.index + height)
    ELSE IF anchor.index >= height THEN Range(anchor.index - height + 1, anchor.index + 1)
    ELSE IF overflow_checks THEN [kind |-> "abort", start |-> 0, end |-> anchor.index + 1]
    ELSE IF anchor.index = height - 1 THEN Range(0, anchor.index + 1)
    ELSE [kind |-> "wrapped", start |-> 0, end |-> anchor.index + 1]

\* The anchor after render's `update anchoring`.
Anchoring(anchor, selected, range) ==
    IF selected = None \/ range.kind # "ok" THEN anchor
    ELSE IF selected[1] < range.start THEN Top(selected[1])
    ELSE IF selected[1] >= range.end THEN Bottom(selected[1])
    ELSE anchor

\* The rows of logs[range] that the table takes: the first num_rows.
TakenRows(range, num_rows) ==
    {i \in range.start..(range.end - 1) : i < range.start + num_rows}

\* Log::render with num_rows rows below the header: the outcome, the anchor
\* it leaves, and the row range it slices logs with.  The slice panics on a
\* range that is reversed or ends past the list; the row of an entry with a
\* BinaryLog buffer panics.
render(logs, selected, anchor, num_rows, overflow_checks) ==
    LET first == rows_to_display(logs, anchor, num_rows, overflow_checks)
        anchored == Anchoring(anchor, selected, first)
        range == rows_to_display(logs, anchored, num_rows, overflow_checks)
        done(kind, why, a, r) ==
            [op |-> "render", kind |-> kind, why |-> why, anchor |-> a,
             height |-> num_rows, start |-> r.start, end |-> r.end]
    IN  IF first.kind = "abort" THEN done("abort", "arith", anchor, first)
        ELSE IF range.kind = "abort" THEN done("abort", "arith", anchored, range)
        ELSE IF range.kind = "wrapped" \/ range.end > Len(logs)
        THEN done("abort", "slice", anchored, range)
        ELSE IF \E i \in TakenRows(range, num_rows) : logs[i + 1].buffer.type # "TextLog"
        THEN done("abort", "payload", anchored, range)
        ELSE done("ok", "", anchored, range)

LogIdle(op) ==
    [op |-> op, kind |-> "ok", why |-> "", anchor |-> Autoscroll, height |-> 0,
     start |-> 0, end |-> 0]

\* LogState::new
LogInit ==
    /\ logLogs = <<>>
    /\ logSelected = None
    /\ logAnchor = Autoscroll
    /\ logLast = LogIdle("new")

\* No Log widget runs.
LogParked ==
    /\ logLogs = <<>>
    /\ logSelected = None
    /\ logAnchor = Autoscroll
    /\ logLast = LogIdle("parked")

LogRunning == logLast.op # "parked" /\ logLast.kind = "ok"

\* LogState::poll with an Ok message on the stream.
LogPoll ==
    /\ LogRunning
    /\ Len(logLogs) < MaxLogs
    /\ \E message \in LogEntries : logLogs' = Append(logLogs, message)
    /\ logLast' = LogIdle("poll")
    /\ UNCHANGED <<logSelected, logAnchor>>
    /\ UNCHANGED <<decVars, selVars, viewVars>>

\* LogState::control(Control::Up)
LogUp ==
    /\ LogRunning
    /\ logSelected' = IF logSelected # None
                      THEN Some(IF logSelected[1] = 0 THEN 0 ELSE logSelected[1] - 1)
                      ELSE IF Len(logLogs) > 0 THEN Some(Len(logLogs) - 1)
                      ELSE logSelected
    /\ logLast' = LogIdle("Up")
    /\ UNCHANGED <<logLogs, logAnchor>>
    /\ UNCHANGED <<decVars, selVars, viewVars>>

\* LogState::control(Control::Down).  A selection exists only on a list
\* with entries (Up and Top set it), so logs.len() - 1 does not underflow.
LogDown ==
    /\ LogRunning
    /\ logSelected' = IF logSelected # None
                      THEN Some(IF logSelected[1] + 1 < Len(logLogs) - 1
                                THEN logSelected[1] + 1 ELSE Len(logLogs) - 1)
                      ELSE logSelected
    /\ logLast' = LogIdle("Down")
    /\ UNCHANGED <<logLogs, logAnchor>>
    /\ UNCHANGED <<decVars, selVars, viewVars>>

\* LogState::control(Control::Bottom)
LogBottom ==
    /\ LogRunning
    /\ logSelected' = None
    /\ logAnchor' = Autoscroll
    /\ logLast' = LogIdle("Bottom")
    /\ UNCHANGED logLogs
    /\ UNCHANGED <<decVars, selVars, viewVars>>

\* LogState::control(Control::Top)
LogTop ==
    /\ LogRunning
    /\ logSelected' = IF Len(logLogs) > 0 THEN Some(0) ELSE logSelected
    /\ logLast' = LogIdle("Top")
    /\ UNCHANGED <<logLogs, logAnchor>>
    /\ UNCHANGED <<decVars, selVars, viewVars>>

\* Log::render on an area that leaves 1..MaxHeight rows below the header,
\* in a build with or without overflow checks.
LogRender ==
    /\ LogRunning
    /\ \E num_rows \in 1..MaxHeight, overflow_checks \in BOOLEAN :
           LET r == render(logLogs, logSelected, logAnchor, num_rows, overflow_checks)
           IN  /\ logAnchor' = r.anchor
               /\ logLast' = r
    /\ UNCHANGED <<logLogs, logSelected>>
    /\ UNCHANGED <<decVars, selVars, viewVars>>

LogNext == LogPoll \/ LogUp \/ LogDown \/ LogBottom \/ LogTop \/ LogRender

\* LogcatApp::ui on a frame whose upper chunk is height rows high: the
\* newest height entries become rows; the row of an entry with a BinaryLog
\* buffer panics.
ui(logs, height) ==
    IF \E i \in 1..Len(logs) : i > Len(logs) - height /\ logs[i].buffer.type # "TextLog"
    THEN "abort" ELSE "ok"

\* LogcatApp::new and the start of run.
ViewInit ==
    /\ viewLogs = <<>>
    /\ viewLast = [op |-> "new", kind |-> "ok", height |-> 0]

\* No LogcatApp runs.
ViewParked ==
    /\ viewLogs = <<>>
    /\ viewLast = [op |-> "parked", kind |-> "ok", height |-> 0]

ViewRunning == viewLast.op # "parked" /\ viewLast.kind = "ok"

\* Event::Log(log)
ViewLog ==
    /\ ViewRunning
    /\ Len(viewLogs) < MaxLogs
    /\ \E log \in LogEntries : viewLogs' = Append(viewLogs, log)
    /\ viewLast' = [op |-> "Log", kind |-> "ok", height |-> 0]
    /\ UNCHANGED <<decVars, selVars, logVars>>

\* Event::KeyEvent with KeyCode::Char('q'): run returns.
ViewQuit ==
    /\ ViewRunning
    /\ viewLast' = [op |-> "q", kind |-> "returned", height |-> 0]
    /\ UNCHANGED viewLogs
    /\ UNCHANGED <<decVars, selVars, logVars>>

\* Event::Tick: terminal.draw(|f| self.ui(f))
ViewTick ==
    /\ ViewRunning
    /\ \E height \in 1..MaxHeight :
           viewLast' = [op |-> "Tick", kind |-> ui(viewLogs, height), height |-> height]
    /\ UNCHANGED viewLogs
    /\ UNCHANGED <<decVars, selVars, logVars>>

ViewNext == ViewLog \/ ViewQuit \/ ViewTick

\* No user interface runs.
UiParked == SelParked /\ LogParked /\ ViewParked

\* A device listing alone.
DevOnlyInit == DevInit /\ BinParked /\ TxtParked /\ TrkParked /\ UiParked

SpecDev == DevOnlyInit /\ [][DevNext]_vars

\* The device selection alone.
SelOnlyInit ==
    SelInit /\ LogParked /\ ViewParked /\ BinParked /\ TxtParked /\ DevParked /\ TrkParked

SpecSelect == SelOnlyInit /\ [][SelectNext]_vars

\* The Log widget alone.
LogOnlyInit ==
    LogInit /\ SelParked /\ ViewParked /\ BinParked /\ TxtParked /\ DevParked /\ TrkParked

SpecLog == LogOnlyInit /\ [][LogNext]_vars

\* Either log viewer: the Log widget or LogcatApp.
ViewerInit ==
    /\ \/ LogInit /\ ViewParked
       \/ LogParked /\ ViewInit
    /\ SelParked /\ BinParked /\ TxtParked /\ DevParked /\ TrkParked

ViewerNext == LogNext \/ ViewNext

SpecViewer == ViewerInit /\ [][ViewerNext]_vars

\* A tracking feed alone.
TrkOnlyInit == TrkInit /\ BinParked /\ TxtParked /\ DevParked /\ UiParked

SpecTrk == TrkOnlyInit /\ [][TrkNext]_vars

\* The binary decoder alone.
BinOnlyInit == BinInit /\ TxtParked /\ DevParked /\ TrkParked /\ UiParked

SpecBin == BinOnlyInit /\ [][BinNext]_vars

\* The text decoder alone.
TxtOnlyInit == TxtInit /\ BinParked /\ DevParked /\ TrkParked /\ UiParked

SpecTxt == TxtOnlyInit /\ [][TxtNext]_vars

\* Both decoders, each on a pipe of its own; one of them is given bytes.
LogcatInit ==
    /\ (BinInit /\ TxtParked) \/ (TxtInit /\ BinParked)
    /\ DevParked
    /\ TrkParked
    /\ UiParked

LogcatNext == BinNext \/ TxtNext

SpecLogcat == LogcatInit /\ [][LogcatNext]_vars

\* Two decoder instances at work at once, each on the pipe of its own adb
\* process; their append and decode steps interleave in any order.
PairBinStreams == {BinC1Entry \o BinEventsEntry, BinEventsEntry \o BinC1Entry}

PairTxtStreams == {TxtEntryUid \o TxtMarkerMain, TxtMarkerMain \o TxtMarkerMain}

PairInit ==
    /\ BinInit
    /\ binStream \in PairBinStreams
    /\ TxtInit
    /\ txtStream \in PairTxtStreams
    /\ DevParked
    /\ TrkParked
    /\ UiParked

SpecPair == PairInit /\ [][LogcatNext]_vars

\* Feeding a buffer whole to the text decoder: decode is called until it
\* returns no item.
RECURSIVE TxtRun(_, _, _)
TxtRun(d, src, out) ==
    LET r == TxtDecode(d, src)
        after == [is_in_error_state |-> r.is_in_error_state, error_data |-> r.error_data]
    IN  IF r.kind = "item"
        THEN TxtRun(after, r.src, Append(out, r.item[1]))
        ELSE [out |-> out, src |-> r.src, dec |-> after, kind |-> r.kind]

------------------------------------------------------------------------------
\* Claims about LogcatBinaryDecoder.

\* The entry the last decode call returned.
BinLastItem == binOut[Len(binOut)]

\* The length and header-size fields of the buffer the last call was given.
BinLastL == binLast.before[1] + 256 * binLast.before[2]
BinLastH == binLast.before[3] + 256 * binLast.before[4]

\* A header that passes decode's checks.
BinHeaderOk(b) ==
    /\ Len(b) >= 4
    /\ b[1] + 256 * b[2] >= 3
    /\ b[1] + 256 * b[2] <= 16384
    /\ b[3] + 256 * b[4] \in {20, 24, 28, 32, 36, 40, 44, 48, 52}

\* The last decode call was given the example entry (H = 28, logId main,
\* L = 6, payload 3 'A' 'B' NUL 'h' 'i') with a NUL after it.
C1_Case ==
    /\ binLast.kind # "idle"
    /\ StartsWith(binLast.before, BinC1Entry \o <<0>>)

\* C1 as stated: decode on the example entry emits TextPayload{level = Debug,
\* tag = "AB", message = "hi"} and advances the buffer by H + L = 34 bytes.
C1_Original ==
    C1_Case =>
        /\ binLast.kind = "item"
        /\ BinLastItem.buffer = [type |-> "TextLog", level |-> <<"Debug">>,
                                 tag |-> <<65, 66>>, message |-> <<104, 105>>]
        /\ binSrc = SubSeq(binLast.before, 35, Len(binLast.before))

\* C1 amended: decode on the example entry emits TextPayload{level = Debug,
\* tag = "AB", message = "h"} (the last payload byte stands for the missing
\* NUL) and advances the buffer by H + L = 34 bytes.
C1_Amended ==
    C1_Case =>
        /\ binLast.kind = "item"
        /\ BinLastItem.buffer = [type |-> "TextLog", level |-> <<"Debug">>,
                                 tag |-> <<65, 66>>, message |-> <<104>>]
        /\ binSrc = SubSeq(binLast.before, 35, Len(binLast.before))

C1_Witness == C1_Case /\ binLast.kind = "item"

C3_ShortBufferUntouched ==
    (/\ binLast.kind # "idle"
     /\ \/ Len(binLast.before) < 4
        \/ BinHeaderOk(binLast.before) /\ Len(binLast.before) < BinLastH + BinLastL)
    => binLast.kind = "none" /\ binSrc = binLast.before

C3_Witness ==
    /\ binLast.kind = "none"
    /\ BinHeaderOk(binLast.before)
    /\ Len(binLast.before) = BinLastH + BinLastL - 1

\* The last decode call was given a proper prefix b of the H + L bytes of
\* the valid entry e.
C4_Case(e) ==
    /\ binLast.kind # "idle"
    /\ BinHeaderOk(e)
    /\ IsPrefix(binLast.before, e)
    /\ Len(binLast.before) < (e[3] + 256 * e[4]) + (e[1] + 256 * e[2])

\* C4: decode on a proper prefix of a valid entry never panics and returns
\* no item.
C4_PrefixNeverAborts ==
    \A e \in BinSamples : C4_Case(e) => binLast.kind = "none"

C4_Witness ==
    \E e \in BinSamples :
        /\ C4_Case(e)
        /\ e[3] = 52
        /\ Len(binLast.before) = 55
        /\ binLast.kind = "none"

\* C6: once every byte has been appended, one at a time and with decode
\* calls in between, and decode has returned no item, the entries returned
\* and the buffer left are those of decoding the whole stream in one buffer.
C6_Incremental ==
    (binFed = Len(binStream) /\ binLast.kind = "none") =>
        LET whole == BinRun(binStream, <<>>)
        IN  /\ whole.kind = "none"
            /\ binOut = whole.out
            /\ binSrc = whole.src

C6_Witness ==
    /\ binFed = Len(binStream)
    /\ binLast.kind = "none"
    /\ Len(binOut) = 2
    /\ Len(binSrc) = 1

\* The last decode call was given a buffer that holds the whole of an entry
\* whose header passes decode's checks.
BinLastWhole ==
    /\ binLast.kind # "idle"
    /\ BinHeaderOk(binLast.before)
    /\ Len(binLast.before) >= BinLastH + BinLastL

\* The L payload bytes of the entry the last decode call was given.
BinLastPayload == SubSeq(binLast.before, BinLastH + 1, BinLastH + BinLastL)

\* The u32 the bytes at offsets off .. off + 3 of b spell, least significant
\* byte first, as its 16-bit halves.
WireU32(b, off) == [hi |-> b[off + 3] + 256 * b[off + 4], lo |-> b[off + 1] + 256 * b[off + 2]]

\* The int32 the bytes at offsets off .. off + 3 of b spell, least significant
\* byte first.
WireI32(b, off) ==
    b[off + 1] + 256 * b[off + 2] + 65536 * b[off + 3]
        + 16777216 * (IF b[off + 4] >= 128 THEN b[off + 4] - 256 ELSE b[off + 4])

\* C13: what decode makes of a fully buffered entry is what it makes of the
\* entry's H + L bytes alone, whatever follows them in the buffer: the same
\* entry (or the same panic), with exactly the bytes after H + L left in the
\* buffer; and the tag and message of a text payload fit into the L payload
\* bytes together with the level byte and the tag's NUL.
C13_PayloadLengthAuthoritative ==
    (BinLastWhole /\ binLast.kind \in {"item", "abort"}) =>
        LET n == BinLastH + BinLastL
            alone == BinDecode(SubSeq(binLast.before, 1, n))
        IN  /\ alone.kind = binLast.kind
            /\ binLast.kind = "item" =>
                   /\ alone.item[1] = BinLastItem
                   /\ binSrc = SubSeq(binLast.before, n + 1, Len(binLast.before))
                   /\ BinLastItem.buffer.type = "TextLog" =>
                          2 + Len(BinLastItem.buffer.tag) + Len(BinLastItem.buffer.message)
                              <= BinLastL

\* The example entry, whose message has no NUL, was decoded with another
\* entry behind it in the buffer.
C13_Witness ==
    /\ binLast.kind = "item"
    /\ StartsWith(binLast.before, BinC1Entry \o BinEventsEntry)
    /\ binSrc = BinEventsEntry

\* C14: with at least 4 bytes buffered, decode panics on an assert! when
\* L < 3, L > 16384, H < 20, H is no multiple of 4 or H > 52, whether or
\* not H + L bytes are buffered; and no assert! panics when the header
\* passes all five checks.
C14_HeaderValidation ==
    (binLast.kind # "idle" /\ Len(binLast.before) >= 4) =>
        /\ ~BinHeaderOk(binLast.before) => binLast.kind = "abort" /\ binLast.why = "assert"
        /\ BinHeaderOk(binLast.before) => binLast.why # "assert"

\* A header with H = 56 made decode panic when only its first four bytes
\* were buffered.
C14_Witness ==
    /\ binLast.kind = "abort"
    /\ Len(binLast.before) = 4
    /\ BinLastH = 56

\* The header of b has a logId field and it is events, stats or security.
C15_BinaryLogId(b) ==
    /\ b[3] + 256 * b[4] >= 24
    /\ WireU32(b, 20).hi = 0
    /\ WireU32(b, 20).lo \in {2, 5, 6}

\* C15: a decoded entry has a binary payload exactly when H >= 24 and its
\* logId is events (2), stats (5) or security (6), and then its tag is the
\* int32 of the first four payload bytes; every other decoded entry, each
\* entry with H = 20 among them, has a text payload.
C15_Classification ==
    binLast.kind = "item" =>
        /\ C15_BinaryLogId(binLast.before) =>
               /\ BinLastItem.buffer.type = "BinaryLog"
               /\ BinLastItem.buffer.tag = WireI32(binLast.before, BinLastH)
        /\ ~C15_BinaryLogId(binLast.before) => BinLastItem.buffer.type = "TextLog"

\* An entry with H = 20 whose payload starts with the bytes of logId events
\* was decoded as text.
C15_Witness ==
    /\ binLast.kind = "item"
    /\ BinLastH = 20
    /\ BinLastL = 5
    /\ WireU32(binLast.before, 20) = [hi |-> 0, lo |-> 2]
    /\ BinLastItem.buffer.type = "TextLog"

\* C16: a decoded entry has logId exactly when H >= 24 (the u32 at offset
\* 20) and uid exactly when H >= 28 (the u32 at offset 24); pid, tid, sec
\* and nsec are the values at offsets 4, 8, 12 and 16 for every H; and the
\* payload starts at offset H, past any header bytes beyond offset 28.
C16_HeaderVersions ==
    binLast.kind = "item" =>
        LET b == binLast.before
            e == BinLastItem
        IN  /\ e.lid = IF BinLastH >= 24 THEN <<WireU32(b, 20)>> ELSE <<>>
            /\ e.uid = IF BinLastH >= 28 THEN <<WireU32(b, 24)>> ELSE <<>>
            /\ e.pid = WireI32(b, 4)
            /\ e.tid = WireU32(b, 8)
            /\ e.timestamp = [sec |-> WireU32(b, 12), nsec |-> WireU32(b, 16)]
            /\ e.buffer.type = "BinaryLog" => e.buffer.tag = WireI32(b, BinLastH)
            /\ e.buffer.type = "TextLog" => e.buffer.level = BinLevel(b[BinLastH + 1])
            /\ binSrc = SubSeq(b, BinLastH + BinLastL + 1, Len(b))

\* An entry with the largest header, H = 52, was decoded.
C16_Witness ==
    /\ binLast.kind = "item"
    /\ BinLastH = 52
    /\ BinLastItem.uid # <<>>
    /\ BinLastItem.buffer.type = "TextLog"

\* The positions, from the byte after the level byte on, of the NUL bytes of
\* the payload the last decode call was given.
C17_Nuls == {k \in 2..BinLastL : BinLastPayload[k] = 0}

\* The last decode call was given a whole entry with a text payload whose
\* only NUL is the one that ends the tag, at position t of the payload.
C17_Case(t) ==
    /\ BinLastWhole
    /\ ~C15_BinaryLogId(binLast.before)
    /\ C17_Nuls = {t}

\* C17 as stated: the message of a text payload with no NUL after the tag's
\* NUL is every payload byte after the tag's NUL, up to the end of the
\* payload.
C17_Original ==
    BinLastWhole => \A t \in C17_Nuls :
        C17_Case(t) =>
            /\ binLast.kind = "item"
            /\ BinLastItem.buffer.message =
                   trim_end_non_ascii(from_utf8_lossy(SubSeq(BinLastPayload, t + 1, BinLastL)))

\* C17 amended: the message of a text payload with no NUL after the tag's
\* NUL is the payload bytes after the tag's NUL without the last payload
\* byte, which stands for the missing NUL; and when the tag's NUL is itself
\* the last payload byte, decode panics.
C17_Amended ==
    BinLastWhole => \A t \in C17_Nuls :
        C17_Case(t) =>
            /\ t < BinLastL =>
                   /\ binLast.kind = "item"
                   /\ BinLastItem.buffer.message =
                          trim_end_non_ascii(
                              from_utf8_lossy(SubSeq(BinLastPayload, t + 1, BinLastL - 1)))
            /\ t = BinLastL => binLast.kind = "abort"

\* The payload 3 'A' 'B' NUL 'h' 'i' was decoded to the message "h".
C17_Witness ==
    /\ C17_Case(4)
    /\ BinLastL = 6
    /\ binLast.kind = "item"
    /\ BinLastItem.buffer.message = <<104>>

------------------------------------------------------------------------------
\* Claims about LogcatStringDecoder.

\* The item the last decode call returned.
TxtLastItem == txtOut[Len(txtOut)]

\* The long-form entries among the samples, without the blank line after them.
TxtEntries ==
    {SubSeq(e, 1, Len(e) - 2) :
        e \in {TxtEntryUid, TxtEntryPid, TxtEntryLongIds, TxtEntryPadded}}

\* C5: decode on a proper prefix of a valid long-form entry never panics and
\* returns no item.
C5_TextPrefixNeverAborts ==
    \A e \in TxtEntries :
        (/\ txtLast.kind # "idle"
         /\ ~txtLast.dec.is_in_error_state
         /\ IsPrefix(txtLast.before, e)
         /\ Len(txtLast.before) < Len(e))
        => txtLast.kind = "none"

\* The offsets of b at which "\n\n" is followed by '-' or '['.
ResyncOffsets(b) ==
    {i \in 0..(Len(b) - 3) : b[i + 1] = 10 /\ b[i + 2] = 10 /\ b[i + 3] \in {45, 91}}

\* The last decode call was made in Normal state on a buffer that starts
\* with a byte other than '-' and '[' and holds a resync point, first at i.
C7_Case(i) ==
    /\ txtLast.kind # "idle"
    /\ ~txtLast.dec.is_in_error_state
    /\ Len(txtLast.before) > 0
    /\ txtLast.before[1] \notin {45, 91}
    /\ i \in ResyncOffsets(txtLast.before)
    /\ \A j \in ResyncOffsets(txtLast.before) : i <= j

\* The last decode call was made in Normal state on a buffer that starts
\* with "--------- beginning of main\n".
C7_MarkerCase ==
    /\ txtLast.kind # "idle"
    /\ ~txtLast.dec.is_in_error_state
    /\ StartsWith(txtLast.before, TxtMarkerMain)

\* C7: in Normal state, on a buffer that starts with an unrecognized byte
\* and has its first resync point at i, decode emits LogUnknown with the
\* bytes [0, i), consumes i + 2 bytes and is in Normal state again; and on
\* a buffer that starts with "--------- beginning of main\n" decode emits
\* LogBeginning("main") and consumes that line.
C7_RecoveryOnOneBuffer ==
    /\ \A i \in 0..Len(txtLast.before) :
           C7_Case(i) =>
               /\ txtLast.kind = "item"
               /\ TxtLastItem = [type |-> "LogUnknown", data |-> SubSeq(txtLast.before, 1, i)]
               /\ txtSrc = SubSeq(txtLast.before, i + 3, Len(txtLast.before))
               /\ txtDec = [is_in_error_state |-> FALSE, error_data |-> <<>>]
    /\ C7_MarkerCase =>
           /\ txtLast.kind = "item"
           /\ TxtLastItem = [type |-> "LogBeginning", name |-> <<109, 97, 105, 110>>]
           /\ txtSrc = SubSeq(txtLast.before, 29, Len(txtLast.before))

\* The garbage "garbage" was emitted as LogUnknown and the decode call after
\* it has emitted LogBeginning("main").
C7_Witness ==
    /\ C7_MarkerCase
    /\ txtLast.kind = "item"
    /\ txtOut = << [type |-> "LogUnknown", data |-> <<103, 97, 114, 98, 97, 103, 101>>],
                   [type |-> "LogBeginning", name |-> <<109, 97, 105, 110>>] >>

\* Streams of garbage followed by "\n\n" and a valid marker or header.
C8_Streams == {g \o f : g \in {TxtGarbage, TxtGarbageBlank}, f \in TxtFollow}

\* C8: however the bytes of garbage followed by "\n\n" and a valid marker or
\* header were split across decode calls, once all are appended and decode
\* returns no item the items emitted are those of feeding the stream in one
\* buffer.
C8_ResyncHoweverSplit ==
    (/\ txtStream \in C8_Streams
     /\ txtFed = Len(txtStream)
     /\ txtLast.kind = "none")
    => txtOut = TxtRun(TxtNew, txtStream, <<>>).out

\* The last decode call was made in ErrorRecovery on a buffer with no
\* resync point.
C9_Case ==
    /\ txtLast.kind # "idle"
    /\ txtLast.dec.is_in_error_state
    /\ ResyncOffsets(txtLast.before) = {}

\* C9: in ErrorRecovery with no resync point buffered, decode appends the
\* buffered bytes to the accumulator, empties the buffer, returns no item
\* and stays in ErrorRecovery; it emits LogUnknown only when the buffer
\* holds a resync point.
C9_NoResyncAccumulates ==
    /\ C9_Case =>
           /\ txtLast.kind = "none"
           /\ txtSrc = <<>>
           /\ txtDec = [is_in_error_state |-> TRUE,
                        error_data |-> txtLast.dec.error_data \o txtLast.before]
    /\ (txtLast.dec.is_in_error_state /\ txtLast.kind = "item") =>
           /\ TxtLastItem.type = "LogUnknown"
           /\ ResyncOffsets(txtLast.before) # {}

C9_Witness ==
    /\ C9_Case
    /\ Len(txtLast.before) > 1
    /\ Len(txtLast.dec.error_data) > 1

\* C10 as stated: for both decoders and every decoder state, a decode call
\* that returns no item leaves the buffer and the decoder's fields unchanged.
C10_Original ==
    /\ binLast.kind = "none" => binSrc = binLast.before
    /\ txtLast.kind = "none" => txtSrc = txtLast.before /\ txtDec = txtLast.dec

\* C10 amended: a binary decode call that returns no item leaves the buffer
\* unchanged; a text decode call that returns no item and leaves the decoder
\* in Normal state leaves the buffer and the fields unchanged; a text decode
\* call that returns no item in, or on entering, ErrorRecovery moves all
\* buffered bytes to the accumulator and empties the buffer.
C10_Amended ==
    /\ binLast.kind = "none" => binSrc = binLast.before
    /\ (txtLast.kind = "none" /\ ~txtDec.is_in_error_state) =>
           txtSrc = txtLast.before /\ txtDec = txtLast.dec
    /\ (txtLast.kind = "none" /\ txtDec.is_in_error_state) =>
           /\ txtSrc = <<>>
           /\ txtDec.error_data = txtLast.dec.error_data \o txtLast.before

\* A text entry whose header is buffered and whose message end is not.
C10_Witness ==
    /\ txtLast.kind = "none"
    /\ ~txtDec.is_in_error_state
    /\ Len(txtLast.before) > 64

\* C11: in Normal state, a call that returns no item for want of bytes (a
\* marker shorter than "--------- beginning of ", a ring name with no
\* newline yet, an entry shorter than the minimal length, a header with no
\* terminator yet, a message with no end yet) leaves the buffer, the
\* error-recovery flag and the accumulator as they were.
C11_NormalNoItemIsNoop ==
    (txtLast.kind # "idle" /\ ~txtLast.dec.is_in_error_state) =>
        LET b == txtLast.before
            untouched == txtSrc = b /\ txtDec = txtLast.dec
        IN  /\ (Len(b) > 0 /\ b[1] = 45 /\ Len(b) < 23) =>
                   txtLast.kind = "none" /\ untouched
            /\ (/\ StartsWith(b, EXPECTED_BEGINNING_OF_BUFFER)
                /\ \A k \in 24..Len(b) : IsWordByte(b[k])) =>
                   txtLast.kind = "none" /\ untouched
            /\ (Len(b) > 0 /\ b[1] = 91 /\ Len(b) < 64) =>
                   txtLast.kind = "none" /\ untouched
            /\ (txtLast.kind = "none" /\ txtLast.why \in {"tag", "message"}) => untouched

\* decode_log found no header terminator in a buffer of 64 bytes or more.
C11_Witness ==
    /\ txtLast.kind = "none"
    /\ txtLast.why = "tag"
    /\ Len(txtLast.before) >= 64
    /\ txtSrc = txtLast.before

\* The offsets at which the span of item it can end when it starts at offset
\* p of stream: a LogBeginning spans its marker line, a LogUnknown its bytes
\* and the blank line after them, a LogMessage a header from "[ " to " ]\n",
\* its message and the blank line after it.
TxtItemEnds(stream, it, p) ==
    IF it.type = "LogBeginning"
    THEN LET s == EXPECTED_BEGINNING_OF_BUFFER \o it.name \o <<10>>
         IN  IF BeginsAt(stream, p, s) THEN {p + Len(s)} ELSE {}
    ELSE IF it.type = "LogUnknown"
    THEN LET s == it.data \o <<10, 10>>
         IN  IF BeginsAt(stream, p, s) THEN {p + Len(s)} ELSE {}
    ELSE {q \in (p + 5 + Len(it.message) + 2)..Len(stream) :
             LET m == q - 2 - Len(it.message)
             IN  /\ BeginsAt(stream, p, <<91, 32>>)
                 /\ Slice(stream, m - 3, m) = <<32, 93, 10>>
                 /\ Slice(stream, m, q) = it.message \o <<10, 10>>}

\* The offsets at which the spans of items, laid end to end in their order
\* from offset p of stream on, can end.
RECURSIVE TxtSpanEnds(_, _, _)
TxtSpanEnds(stream, items, p) ==
    IF items = <<>> THEN {p}
    ELSE UNION {TxtSpanEnds(stream, Tail(items), q) : q \in TxtItemEnds(stream, Head(items), p)}

\* The number of bytes the text decoder has taken off its buffer.
TxtConsumed == txtFed - Len(txtSrc)

\* C12: the buffer holds the appended bytes that were not consumed, and the
\* consumed bytes are, in stream order, the spans of the emitted items with
\* their blank-line separators followed by the bytes in the accumulator.
C12_ByteAccounting ==
    LET held == Len(txtDec.error_data)
    IN  /\ TxtConsumed >= 0
        /\ txtSrc = SubSeq(txtStream, TxtConsumed + 1, txtFed)
        /\ held <= TxtConsumed
        /\ txtDec.error_data = SubSeq(txtStream, TxtConsumed - held + 1, TxtConsumed)
        /\ (TxtConsumed - held) \in TxtSpanEnds(txtStream, txtOut, 0)

\* An entry and the marker after it were emitted and every byte was consumed.
C12_Witness ==
    /\ Len(txtOut) = 2
    /\ txtOut[1].type = "LogMessage"
    /\ txtOut[2].type = "LogBeginning"
    /\ txtFed = Len(txtStream)
    /\ txtSrc = <<>>

\* Where the spans of the entries items, laid end to end in their order from
\* offset p of stream on, end: each span is the H + L bytes of a wire entry
\* whose pid is the item's.  -1 when the items are not there in that order.
RECURSIVE BinSpansEnd(_, _, _)
BinSpansEnd(stream, items, p) ==
    IF items = <<>> THEN p
    ELSE IF p + 8 > Len(stream) THEN -1
    ELSE LET span == (stream[p + 3] + 256 * stream[p + 4]) + (stream[p + 1] + 256 * stream[p + 2])
         IN  IF Head(items).pid = WireI32(stream, p + 4) /\ p + span <= Len(stream)
             THEN BinSpansEnd(stream, Tail(items), p + span)
             ELSE -1

\* C18: for both decoders, the items emitted so far cover, in the order of
\* their emission, byte ranges of the stream that follow one another without
\* overlap from the start of the stream on, inside the bytes consumed so
\* far: no item is out of stream order, and none is emitted twice.
C18_Ordering ==
    /\ LET end == BinSpansEnd(binStream, binOut, 0)
       IN  end >= 0 /\ end <= binFed - Len(binSrc)
    /\ \E q \in TxtSpanEnds(txtStream, txtOut, 0) : q <= TxtConsumed

\* Three entries were emitted, the first two of them different.
C18_Witness ==
    /\ Len(binOut) = 3
    /\ binOut[1] # binOut[2]
    /\ binSrc = <<>>

\* The uid, pid and tid tokens of the long-form header at the start of b:
\* the bytes between the timestamp and the space before the level character,
\* without their spaces.
C19_IdBytes(b) ==
    LET slash == CHOOSE k \in 39..Len(b) : b[k] = 47 /\ \A j \in 39..(k - 1) : b[j] # 47
    IN  SelectSeq(SubSeq(b, 38, slash - 3), LAMBDA c : c # 32)

\* The value of a token of decimal digits, as a u32.
C19_Number(token) == U32(DecimalValue(token, 0))

\* C19: a LogMessage whose header has three colon-separated tokens has the
\* first as uid, the second as pid and the third as tid; one whose header
\* has two has no uid, an all-digit first token as pid and the second as
\* tid; and a header whose first token has a non-digit character and that
\* has no second colon sends the decoder to error recovery.
C19_UidPidDisambiguation ==
    /\ (txtLast.kind = "item" /\ TxtLastItem.type = "LogMessage") =>
           LET ids == C19_IdBytes(txtLast.before)
               colons == {k \in 1..Len(ids) : ids[k] = 58}
               c1 == CHOOSE k \in colons : \A j \in colons : k <= j
               c2 == CHOOSE k \in colons : \A j \in colons : j <= k
               e == TxtLastItem
           IN  /\ Cardinality(colons) \in {1, 2}
               /\ Cardinality(colons) = 2 =>
                      /\ e.uid = <<SubSeq(ids, 1, c1 - 1)>>
                      /\ e.pid = C19_Number(SubSeq(ids, c1 + 1, c2 - 1))
                      /\ e.tid = C19_Number(SubSeq(ids, c2 + 1, Len(ids)))
               /\ Cardinality(colons) = 1 =>
                      /\ e.uid = <<>>
                      /\ \A k \in 1..(c1 - 1) : ids[k] \in 48..57
                      /\ e.pid = C19_Number(SubSeq(ids, 1, c1 - 1))
                      /\ e.tid = C19_Number(SubSeq(ids, c1 + 1, Len(ids)))
    /\ (/\ txtLast.kind # "idle"
        /\ ~txtLast.dec.is_in_error_state
        /\ StartsWith(txtLast.before, SubSeq(TxtEntryNamePid, 1, 64))) =>
           /\ txtLast.kind = "item" => TxtLastItem.type = "LogUnknown"
           /\ txtLast.kind = "none" => txtDec.is_in_error_state
           /\ txtLast.kind # "abort"

\* The header "root:1234:5678" gave uid "root", pid 1234 and tid 5678.
C19_Witness ==
    /\ txtLast.kind = "item"
    /\ TxtLastItem.type = "LogMessage"
    /\ TxtLastItem.uid = << <<114, 111, 111, 116>> >>
    /\ TxtLastItem.pid = U32(1234)
    /\ TxtLastItem.tid = U32(5678)

\* The offsets of b, from m on, at which "\n\n" is followed by
\* "--------- beginning of " or by "[ ".
C20_Boundaries(b, m) ==
    {e \in m..(Len(b) - 4) :
        /\ b[e + 1] = 10
        /\ b[e + 2] = 10
        /\ \/ SubSeq(b, e + 3, e + 4) = <<91, 32>>
           \/ /\ e + 25 <= Len(b)
              /\ SubSeq(b, e + 3, e + 25) = EXPECTED_BEGINNING_OF_BUFFER}

\* The offsets of b at which " ]\n" stands.
C20_HeaderEnds(b) == {h \in 0..(Len(b) - 3) : SubSeq(b, h + 1, h + 3) = <<32, 93, 10>>}

\* C20: the message of an emitted LogMessage runs from the byte after the
\* first " ]\n" to the first "\n\n" from there on that is followed by
\* "--------- beginning of " or "[ " (a blank line followed by anything else
\* stays in the message), and the buffer is left starting at the byte after
\* that "\n\n".
C20_MessageBoundary ==
    (txtLast.kind = "item" /\ TxtLastItem.type = "LogMessage") =>
        LET b == txtLast.before
        IN  \E h \in C20_HeaderEnds(b) :
                /\ \A h2 \in C20_HeaderEnds(b) : h <= h2
                /\ \E e \in C20_Boundaries(b, h + 3) :
                       /\ \A e2 \in C20_Boundaries(b, h + 3) : e <= e2
                       /\ TxtLastItem.message = SubSeq(b, h + 4, e)
                       /\ txtSrc = SubSeq(b, e + 3, Len(b))

\* An entry whose message holds a blank line was emitted with the blank line
\* inside the message: "ab\n\ncd".
C20_Witness ==
    /\ txtLast.kind = "item"
    /\ TxtLastItem.type = "LogMessage"
    /\ TxtLastItem.message = <<97, 98, 10, 10, 99, 100>>
    /\ Len(txtSrc) > 0

\* The last decode call was made in Normal state on a buffer of at least 23
\* bytes that starts with '-'.
C21_Case ==
    /\ txtLast.kind # "idle"
    /\ ~txtLast.dec.is_in_error_state
    /\ Len(txtLast.before) >= 23
    /\ txtLast.before[1] = 45

\* The offsets from 23 on of the bytes of b that are neither alphanumeric
\* nor '_'.
C21_NameStops(b) ==
    {i \in 23..(Len(b) - 1) :
        ~(b[i + 1] \in 48..57 \/ b[i + 1] \in 65..90 \/ b[i + 1] \in 97..122 \/ b[i + 1] = 95)}

\* The call sent the decoder into error recovery: it either found a resync
\* point at once and emitted LogUnknown, or it holds the bytes in the
\* accumulator and is in ErrorRecovery.
C21_WentToRecovery ==
    \/ txtLast.kind = "item" /\ TxtLastItem.type = "LogUnknown"
    \/ txtLast.kind = "none" /\ txtDec.is_in_error_state /\ txtSrc = <<>>

\* C21: in Normal state with first byte '-' and at least 23 bytes buffered,
\* decode emits LogBeginning(name) and consumes through the newline exactly
\* when the buffer starts with "--------- beginning of ", name bytes and
\* '\n'; with another prefix, or another byte before the newline, the
\* decoder goes to error recovery; with a name that has no end yet it
\* returns no item and changes nothing.
C21_RingBufferMarker ==
    C21_Case =>
        LET b == txtLast.before
            stops == C21_NameStops(b)
        IN  /\ ~StartsWith(b, EXPECTED_BEGINNING_OF_BUFFER) => C21_WentToRecovery
            /\ (StartsWith(b, EXPECTED_BEGINNING_OF_BUFFER) /\ stops = {}) =>
                   txtLast.kind = "none" /\ txtSrc = b /\ txtDec = txtLast.dec
            /\ (StartsWith(b, EXPECTED_BEGINNING_OF_BUFFER) /\ stops # {}) =>
                   \E i \in stops :
                       /\ \A j \in stops : i <= j
                       /\ b[i + 1] = 10 =>
                              /\ txtLast.kind = "item"
                              /\ TxtLastItem = [type |-> "LogBeginning", name |-> SubSeq(b, 24, i)]
                              /\ txtSrc = SubSeq(b, i + 2, Len(b))
                              /\ txtDec = txtLast.dec
                       /\ b[i + 1] # 10 => C21_WentToRecovery

\* The marker "--------- beginning of ma in", whose name holds a space, sent
\* the decoder to ErrorRecovery.
C21_Witness ==
    /\ C21_Case
    /\ StartsWith(txtLast.before, SubSeq(TxtBadRingName, 1, 26))
    /\ txtLast.kind = "none"
    /\ txtDec.is_in_error_state

\* C28: no decode call aborts in the conversion of a pid or tid token to a
\* number: a header whose pid and tid tokens are digit strings of any length
\* gives a LogMessage or error recovery.
C28_PidTidNeverAbort ==
    (txtLast.kind # "idle" /\ ~txtLast.dec.is_in_error_state) =>
        ~(txtLast.kind = "abort" /\ txtLast.why = "parse")

\* C29: once 64 bytes are buffered, no indexed read of decode_log's header
\* parse, up to the '/' after the level character, is outside the buffer.
C29_HeaderReadsInBounds ==
    (txtLast.kind # "idle" /\ ~txtLast.dec.is_in_error_state /\ Len(txtLast.before) >= 64) =>
        ~(txtLast.kind = "abort" /\ txtLast.why = "index")

\* C30: a fully buffered entry with a valid header and logId events, stats
\* or security decodes to a binary payload whose tag is the int32 of the
\* first four payload bytes, for every L from 3 on, without a panic.
C30_BinaryPayloadAnyLength ==
    (BinLastWhole /\ C15_BinaryLogId(binLast.before)) =>
        /\ binLast.kind = "item"
        /\ BinLastItem.buffer.type = "BinaryLog"
        /\ BinLastItem.buffer.tag = WireI32(binLast.before, BinLastH)

\* What each instance has emitted and still holds, against what it emits
\* when it alone is given the bytes fed so far in one piece.
C27_AsAlone ==
    /\ LET alone == BinRun(SubSeq(binStream, 1, binFed), <<>>)
           rest == BinRun(binSrc, <<>>)
       IN  /\ binOut \o rest.out = alone.out
           /\ rest.src = alone.src
    /\ LET alone == TxtRun(TxtNew, SubSeq(txtStream, 1, txtFed), <<>>)
           rest == TxtRun(txtDec, txtSrc, <<>>)
       IN  /\ txtOut \o rest.out = alone.out
           /\ rest.src = alone.src
           /\ rest.dec = alone.dec

\* A step that changes one instance leaves the other as it was.
C27_StepsApart ==
    /\ binVars' # binVars => txtVars' = txtVars
    /\ txtVars' # txtVars => binVars' = binVars

\* C27: with the append and decode steps of two decoder instances
\* interleaved in any order, each instance emits the items it emits when run
\* alone on its input, and no step of one changes the fields or the buffer
\* of the other.
C27_Independence == [][C27_StepsApart]_vars /\ []C27_AsAlone

\* Both instances have emitted an item and the binary one still has bytes
\* to come.
C27_Witness ==
    /\ binOut # <<>>
    /\ txtLast.kind = "item"
    /\ binFed < Len(binStream)
    /\ binStream \in PairBinStreams
    /\ txtStream \in PairTxtStreams

------------------------------------------------------------------------------
\* Claims about device enumeration.

\* AdbDevice::parse was called on a line.
DevParsed == devLast.kind # "idle" /\ devLast.why # "assert"

\* The ways a line matches the enumeration grammar
\* <id>\s+<state>\s<devpath>: the ends of id, of the white space and of the
\* state, and the end of the devpath.
DevGrammarSplits(line) ==
    LET n == Len(line)
        All(lo, hi, set) == \A k \in lo..hi : line[k] \in set
        xdigit == (48..57) \cup (65..70) \cup (97..102)
        space == {9, 10, 11, 12, 13, 32}
        alpha == (65..90) \cup (97..122)
        path == (48..57) \cup (65..90) \cup (97..122) \cup {45, 58}
    IN  UNION {UNION {UNION {
            {<<i, w, c, d>> : d \in {d \in (c + 2)..n :
                                      /\ All(c + 2, d, path)
                                      /\ d < n => line[d + 1] \notin path}}
            : c \in {c \in (w + 1)..(n - 1) : All(w + 1, c, alpha) /\ line[c + 1] \in space}}
            : w \in {w \in (i + 1)..n : All(i + 1, w, space)}}
            : i \in {i \in 1..n : All(1, i, xdigit)}}

\* C22: AdbDevice::parse on a line that matches the enumeration grammar
\* returns a device record whose serial, connection state and devpath are
\* the matched fields.
C22_ParseReturnsRecord ==
    (DevParsed /\ DevGrammarSplits(devLast.line) # {}) =>
        /\ devLast.kind = "ok"
        /\ \E x \in DevGrammarSplits(devLast.line) :
               /\ devLast.device[1].serial = SubSeq(devLast.line, 1, x[1])
               /\ devLast.device[1].connection_state = SubSeq(devLast.line, x[2] + 1, x[3])
               /\ devLast.device[1].devpath = SubSeq(devLast.line, x[3] + 2, x[4])

\* C23: AdbDevice::parse on a line that does not match the enumeration
\* grammar returns the Parse error that carries the line, and does not
\* abort; the stream yields that error.
C23_NoMatchIsParseError ==
    (DevParsed /\ DevGrammarSplits(devLast.line) = {}) =>
        /\ devLast.kind = "err"
        /\ devLast.error = [type |-> "Parse", line |-> devLast.line]
        /\ devOut # <<>>
        /\ devOut[Len(devOut)] = [ok |-> FALSE, error |-> [type |-> "Parse", line |-> devLast.line]]

\* The header line of the listing, read by fastboot::devices() or repeated
\* in the output of adb, gave the Parse error.
C23_Witness ==
    /\ DevParsed
    /\ devLast.line = DevHeaderLine
    /\ devLast.kind = "err"

\* C24: a line of the listing that fails to parse does not end the
\* devices() stream: the stream ends only at a blank line or at the end of
\* the command's output.
C24_FailureStaysLocal ==
    devStatus = "ended" =>
        \/ devRead = Len(devLines) /\ devLast.kind # "err"
        \/ devRead > 0 /\ devLines[devRead] = <<>>
        \/ devRead = Len(devLines) /\ devLast.line = devLines[devRead]

------------------------------------------------------------------------------
\* Claims about the tracking-frame decoder.

\* The last decode call was given a buffer with a well-formed length field.
TrkLastFramed ==
    /\ trkLast.kind # "idle"
    /\ Len(trkLast.before) >= 4
    /\ HexLength(trkLast.before) # None

\* The frame length 4 + L of the buffer the last call was given.
TrkLastEnd == 4 + HexLength(trkLast.before)[1]

\* C25: the 22 bytes "0012abc1 device usb:1\n" decode to one frame with the
\* one device record {abc1, device, usb:1} and leave the buffer empty; a
\* frame is emitted only when its 4 + L bytes are buffered and then
\* consumes exactly 4 + L bytes; with fewer bytes nothing is consumed.
C25_FrameDecoding ==
    /\ (trkLast.kind # "idle" /\ trkLast.before = TrkExampleFrame) =>
           /\ trkLast.kind = "item"
           /\ trkOut[Len(trkOut)] =
                  <<[ok |-> TRUE,
                     device |-> [serial |-> <<97, 98, 99, 49>>,
                                 connection_state |-> <<100, 101, 118, 105, 99, 101>>,
                                 devpath |-> <<117, 115, 98, 58, 49>>,
                                 live |-> None]]>>
           /\ trkSrc = <<>>
    /\ (trkLast.kind # "idle" /\ Len(trkLast.before) < 4) =>
           trkLast.kind = "none" /\ trkSrc = trkLast.before
    /\ TrkLastFramed =>
           /\ trkLast.kind = "item" =>
                  /\ Len(trkLast.before) >= TrkLastEnd
                  /\ trkSrc = SubSeq(trkLast.before, TrkLastEnd + 1, Len(trkLast.before))
           /\ Len(trkLast.before) < TrkLastEnd =>
                  trkLast.kind = "none" /\ trkSrc = trkLast.before

\* The lines of the frame the last call was given that do not match the
\* enumeration grammar.
TrkLastLines == PayloadLines(SubSeq(trkLast.before, 5, TrkLastEnd), <<>>)

\* C26: a fully buffered frame with a malformed device line is emitted and
\* consumed, with one result per non-empty line and an Err for the malformed
\* line; a length field that is not hex, or a payload that is not UTF-8,
\* makes the call fail and consume nothing.
C26_FrameErrors ==
    /\ (/\ TrkLastFramed
        /\ Len(trkLast.before) >= TrkLastEnd
        /\ is_utf8(SubSeq(trkLast.before, 5, TrkLastEnd))
        /\ \E k \in 1..Len(TrkLastLines) : DevGrammarSplits(TrkLastLines[k]) = {}) =>
           /\ trkLast.kind = "item"
           /\ Len(trkOut[Len(trkOut)]) = Len(TrkLastLines)
           /\ \A k \in 1..Len(TrkLastLines) :
                  DevGrammarSplits(TrkLastLines[k]) = {} =>
                      trkOut[Len(trkOut)][k] =
                          [ok |-> FALSE, error |-> [type |-> "Parse", line |-> TrkLastLines[k]]]
           /\ trkSrc = SubSeq(trkLast.before, TrkLastEnd + 1, Len(trkLast.before))
    /\ (/\ trkLast.kind # "idle"
        /\ Len(trkLast.before) >= 4
        /\ \/ HexLength(trkLast.before) = None
           \/ /\ Len(trkLast.before) >= TrkLastEnd
              /\ ~is_utf8(SubSeq(trkLast.before, 5, TrkLastEnd))) =>
           trkLast.kind = "error" /\ trkSrc = trkLast.before

------------------------------------------------------------------------------
\* Further claims about the logcat decoders.

\* The nanoseconds field of the entry the last call was given is one that
\* from_timestamp_opt accepts (below 2,000,000,000).
BinLastNsecOk ==
    LET nsec == WireU32(binLast.before, 16)
    IN  nsec.hi < 30517 \/ (nsec.hi = 30517 /\ nsec.lo < 37888)

\* C36: a fully buffered entry with a valid header that is classified as
\* text decodes to a text payload without a panic whatever its payload
\* bytes are, also with no NUL after the level byte and with the tag's NUL
\* as the last payload byte.
C36_TextPayloadNeverAborts ==
    (BinLastWhole /\ ~C15_BinaryLogId(binLast.before) /\ BinLastNsecOk) =>
        /\ binLast.kind = "item"
        /\ BinLastItem.buffer.type = "TextLog"

\* C37: a decode call of the text decoder that emits an item takes at least
\* one byte off the buffer, so a fixed buffer gives finitely many items.
C37_ItemsConsume ==
    txtLast.kind = "item" =>
        /\ Len(txtSrc) < Len(txtLast.before)
        /\ txtSrc = SubSeq(txtLast.before, Len(txtLast.before) - Len(txtSrc) + 1,
                           Len(txtLast.before))

\* An empty LogUnknown was emitted.
C37_Witness ==
    /\ txtLast.kind = "item"
    /\ TxtLastItem = [type |-> "LogUnknown", data |-> <<>>]

\* C38: right after a decode call that emits LogMessage or LogUnknown the
\* decoder is in Normal state, its accumulator is empty and the buffer is
\* not empty and starts with '-' or '['.
C38_ResyncPostcondition ==
    (txtLast.kind = "item" /\ TxtLastItem.type \in {"LogMessage", "LogUnknown"}) =>
        /\ ~txtDec.is_in_error_state
        /\ txtDec.error_data = <<>>
        /\ txtSrc # <<>>
        /\ txtSrc[1] \in {45, 91}

\* A LogUnknown with bytes gathered over several decode calls was emitted.
C38_Witness ==
    /\ txtLast.kind = "item"
    /\ TxtLastItem.type = "LogUnknown"
    /\ txtLast.dec.is_in_error_state
    /\ txtLast.dec.error_data # <<>>

------------------------------------------------------------------------------
\* Claims about the device selection.

\* C31: delete_selected with a selection at index i removes item i and
\* selects the item that followed it: that item now has index i, and the
\* first item is selected if the deleted one was the last; the selection is
\* None if the list became empty.  A Delete without selection changes
\* nothing.
C31_DeleteSelectsFollower ==
    /\ selLast.op = "delete_selected" =>
           LET i == selLast.selected[1]
               n == Len(selLast.items)
           IN  /\ selItems = remove(selLast.items, i)
               /\ selSelected = IF n = 1 THEN None
                                ELSE IF i < n - 1 THEN Some(i) ELSE Some(0)
    /\ (selLast.op = "Delete" /\ selLast.why = "none") =>
           /\ selItems = selLast.items
           /\ selSelected = selLast.selected

\* C32: in every state of the device selection the selected index is None
\* or below the number of items, and neither next nor previous (nor the
\* next inside delete_selected) has computed len - 1 on an empty list.
C32_SelectionInRange ==
    /\ selSelected = None \/ selSelected[1] < Len(selItems)
    /\ selLast.why # "underflow"

\* delete_selected has removed the last item of a longer list and the first
\* item is selected.
C32_Witness ==
    /\ selLast.op = "delete_selected"
    /\ selLast.selected = Some(Len(selLast.items) - 1)
    /\ selItems # <<>>
    /\ selSelected = Some(0)

\* C34: an error of the continuous device query never makes run abort: not
\* in the iteration that receives it, and not in a later one that asks the
\* query for its next listing.
C34_QueryErrorsIgnored ==
    selLast.op \in {"devices_err", "devices_none"} => selStatus = "running"

\* C35: after load_initial_state and any number of update_devices calls
\* every item has a cache entry, update_devices has not unwrapped an absent
\* one, and no two items have the same serial.
C35_ItemsCached ==
    /\ \A k \in 1..Len(selItems) : selItems[k].cache # None
    /\ ~(selLast.op = "update_devices" /\ selLast.why = "unwrap")
    /\ \A j, k \in 1..Len(selItems) : selItems[j].serial = selItems[k].serial => j = k

------------------------------------------------------------------------------
\* Claims about the log viewers.

\* C33: whatever polls, controls and renders came before, and whatever the
\* heights of the renders were, a render computes a row range with
\* 0 <= start <= end <= logs.len() and at most height rows, and the range
\* contains the selected row if a row is selected.
C33_WindowInRange ==
    logLast.op = "render" =>
        /\ logLast.why \notin {"arith", "slice"}
        /\ 0 <= logLast.start
        /\ logLast.start <= logLast.end
        /\ logLast.end <= Len(logLogs)
        /\ logLast.end - logLast.start <= logLast.height
        /\ logSelected # None =>
               /\ logLast.start <= logSelected[1]
               /\ logSelected[1] < logLast.end

\* C39: with any decoded entries in its list, text payloads and binary
\* payloads alike, a draw of LogcatApp and a render of the Log widget
\* complete without a panic over an entry's payload.
C39_DrawNeverAborts ==
    /\ viewLast.op = "Tick" => viewLast.kind = "ok"
    /\ logLast.op = "render" => logLast.why # "payload"

====
